---------------------------- MODULE Spec2Model ----------------------------
(***************************************************************************)
(* A model of jpq, a JSONPath (RFC 9535) engine for Python.                *)
(*                                                                         *)
(* Modelled from the Python sources: the evaluator of query.py, the nodes  *)
(* of node.py, the Nothing value of nothing.py, the function extensions    *)
(* and the environment of env.py.  The lexer, the parser and the           *)
(* well-typedness checker live in the native module jpq.jpq, which is not  *)
(* among the Python sources: they are modelled from the specification and  *)
(* marked so where they are defined.                                       *)
(*                                                                         *)
(* Text (a query, a normalized path, a name, a JSON string) is a sequence  *)
(* of characters, each a one-character string; the names of the function   *)
(* extensions and the keywords true, false and null are written as one     *)
(* letter-like character each ("length"), which keeps query texts short.   *)
(***************************************************************************)
EXTENDS Integers, Sequences, FiniteSets, TLC

VARIABLES
    kwargs,              \* the keyword arguments JSONPathEnvironment was created with
    function_extensions, \* JSONPathEnvironment._function_extensions: name -> function
    strict,              \* JSONPathEnvironment._strict
    compiled,            \* the JSONPathQuery the host holds, if it holds one
    doc,                 \* the JSON-like document the host queries
    op,                  \* the last operation the host performed
    arg,                 \* its argument (a query text or a query)
    result,              \* what it returned or raised
    second               \* what the operation that follows it up returned or raised

vars == <<kwargs, function_extensions, strict, compiled, doc, op, arg, result, second>>

-----------------------------------------------------------------------------
(* JSON-like values (env.py JSONValue).  Every value is a record of the     *)
(* same shape; t is the Python type of the value.                           *)

JNull == [t |-> "null", b |-> FALSE, n |-> 0, s |-> <<>>, names |-> <<>>, items |-> <<>>]

JBool(b) == [t |-> "bool", b |-> b, n |-> 0, s |-> <<>>, names |-> <<>>, items |-> <<>>]

JNum(n) == [t |-> "num", b |-> FALSE, n |-> n, s |-> <<>>, names |-> <<>>, items |-> <<>>]

JStr(s) == [t |-> "str", b |-> FALSE, n |-> 0, s |-> s, names |-> <<>>, items |-> <<>>]

JArr(items) == [t |-> "arr", b |-> FALSE, n |-> 0, s |-> <<>>, names |-> <<>>, items |-> items]

\* A dict: its member names in insertion (document) order and their values.
JObj(names, items) == [t |-> "obj", b |-> FALSE, n |-> 0, s |-> <<>>, names |-> names, items |-> items]

\* isinstance(value, (dict, list))
IsContainer(v) == v.t \in {"arr", "obj"}

\* value[name] of a dict: the position of name among the members, 0 when absent.
RECURSIVE MemberPos(_, _, _)
MemberPos(names, name, i) ==
    IF i > Len(names) THEN 0
    ELSE IF names[i] = name THEN i
    ELSE MemberPos(names, name, i + 1)

\* The nesting depth of a value: 0 for a primitive, 1 for a flat container.
RECURSIVE MaxOver(_, _)
RECURSIVE Depth(_)
MaxOver(items, i) ==
    IF i > Len(items) THEN 0
    ELSE LET d == Depth(items[i])
             r == MaxOver(items, i + 1)
         IN IF d > r THEN d ELSE r

Depth(v) == IF IsContainer(v) THEN 1 + MaxOver(v.items, 1) ELSE 0

-----------------------------------------------------------------------------
(* Nodes (node.py).  A location part is a str or an int in node.py; the     *)
(* native engine has a third part, the key marker of the `~` selectors.     *)

LName(name) == [k |-> "name", name |-> name, index |-> 0]

LIndex(i) == [k |-> "index", name |-> <<>>, index |-> i]

LKey(name) == [k |-> "key", name |-> name, index |-> 0]

JSONPathNode(value, location) == [value |-> value, location |-> location]

\* str(i) of a Python int, as characters.
Digit(d) == <<"0", "1", "2", "3", "4", "5", "6", "7", "8", "9">>[d + 1]

RECURSIVE NatStr(_)
NatStr(n) == IF n < 10 THEN <<Digit(n)>> ELSE NatStr(n \div 10) \o <<Digit(n % 10)>>

IntStr(i) == IF i < 0 THEN <<"-">> \o NatStr(-i) ELSE NatStr(i)

-----------------------------------------------------------------------------
(* The query AST that jpq.jpq hands to query.py: Query, Segment, Selector   *)
(* and FilterExpression, with the field names query.py matches on.          *)

\* An optional int (the start, stop and step of a slice): None or an int.
None == [some |-> FALSE, v |-> 0]

Some(i) == [some |-> TRUE, v |-> i]

NoExpr == <<>>

Selector(kind, name, index, start, stop, step, expression) ==
    [kind |-> kind, name |-> name, index |-> index,
     start |-> start, stop |-> stop, step |-> step, expression |-> expression]

SelName(name) == Selector("Name", name, 0, None, None, None, NoExpr)

SelIndex(i) == Selector("Index", <<>>, i, None, None, None, NoExpr)

SelSlice(start, stop, step) == Selector("Slice", <<>>, 0, start, stop, step, NoExpr)

SelWild == Selector("Wild", <<>>, 0, None, None, None, NoExpr)

SelFilter(e) == Selector("Filter", <<>>, 0, None, None, None, <<e>>)

SelKeys == Selector("Keys", <<>>, 0, None, None, None, NoExpr)

SelKeysFilter(e) == Selector("KeysFilter", <<>>, 0, None, None, None, <<e>>)

SelKeyName(name) == Selector("KeyName", name, 0, None, None, None, NoExpr)

Segment(kind, selectors) == [kind |-> kind, selectors |-> selectors]

Query(segments) == [segments |-> segments]

\* A filter expression; args holds the sub-expressions (one for Not, left
\* and right for Comparison and Logical, the arguments for Function).
FilterExpression(kind, value, operator, args, query, name) ==
    [kind |-> kind, value |-> value, operator |-> operator,
     args |-> args, query |-> query, name |-> name]

ExprTrue == FilterExpression("True_", JBool(TRUE), "", <<>>, <<>>, <<>>)

ExprFalse == FilterExpression("False_", JBool(FALSE), "", <<>>, <<>>, <<>>)

ExprNull == FilterExpression("Null", JNull, "", <<>>, <<>>, <<>>)

ExprString(s) == FilterExpression("String", JStr(s), "", <<>>, <<>>, <<>>)

ExprInt(i) == FilterExpression("Int", JNum(i), "", <<>>, <<>>, <<>>)

ExprNot(e) == FilterExpression("Not", JNull, "", <<e>>, <<>>, <<>>)

ExprComparison(left, operator, right) ==
    FilterExpression("Comparison", JNull, operator, <<left, right>>, <<>>, <<>>)

ExprLogical(left, operator, right) ==
    FilterExpression("Logical", JNull, operator, <<left, right>>, <<>>, <<>>)

ExprRelativeQuery(segments) ==
    FilterExpression("RelativeQuery", JNull, "", <<>>, segments, <<>>)

ExprRootQuery(segments) ==
    FilterExpression("RootQuery", JNull, "", <<>>, segments, <<>>)

ExprFunction(name, args) == FilterExpression("Function", JNull, "", args, <<>>, name)

ExprCurrentKey == FilterExpression("CurrentKey", JNull, "", <<>>, <<>>, <<>>)

-----------------------------------------------------------------------------
(* Python objects of the evaluator.  A generator's outcome is the nodes it  *)
(* yields or the exception that ends it; the value of a filter expression   *)
(* is a JSON-like value, NOTHING or a JSONPathNodeList, or an exception.    *)

Ok(nodes) == [err |-> "", nodes |-> nodes]

Raise(e) == [err |-> e, nodes |-> <<>>]

PyValue(v) == [err |-> "", kind |-> "value", val |-> v, nodes |-> <<>>]

NOTHING == [err |-> "", kind |-> "nothing", val |-> JNull, nodes |-> <<>>]

JSONPathNodeList(nodes) == [err |-> "", kind |-> "nodes", val |-> JNull, nodes |-> nodes]

ExprRaise(e) == [err |-> e, kind |-> "value", val |-> JNull, nodes |-> <<>>]

\* values() of a node list
RECURSIVE Values(_)
Values(nodes) ==
    IF nodes = <<>> THEN <<>> ELSE <<Head(nodes).value>> \o Values(Tail(nodes))

-----------------------------------------------------------------------------
(* What the Python operations used by query.py do on JSON-like values.      *)

Got(v) == [exc |-> "", value |-> v]

Exc(e) == [exc |-> e, value |-> JNull]

\* node.value[name] with a str (query.py:157): a dict gives the member or
\* KeyError, a list gives TypeError (list indices must be integers).
GetItemName(value, name) ==
    IF value.t = "obj"
    THEN LET p == MemberPos(value.names, name, 1)
         IN IF p = 0 THEN Exc("KeyError") ELSE Got(value.items[p])
    ELSE Exc("TypeError")

\* node.value[index] with an int (query.py:164): a list counts a negative
\* index from its end and gives IndexError out of range; a dict, whose keys
\* are all strings, gives KeyError.
GetItemIndex(value, index) ==
    IF value.t = "arr"
    THEN LET len == Len(value.items)
             i == IF index < 0 THEN index + len ELSE index
         IN IF i < 0 \/ i >= len THEN Exc("IndexError") ELSE Got(value.items[i + 1])
    ELSE IF value.t = "obj" THEN Exc("KeyError")
    ELSE Exc("TypeError")

\* The bounds of list[start:stop:step], step # 0, as CPython adjusts them
\* to a list of length len.
SliceBound(bound, len, step, default) ==
    IF ~bound.some THEN default
    ELSE IF bound.v < 0
         THEN (IF bound.v + len < 0 THEN (IF step < 0 THEN -1 ELSE 0) ELSE bound.v + len)
         ELSE (IF bound.v >= len THEN (IF step < 0 THEN len - 1 ELSE len) ELSE bound.v)

RECURSIVE SliceRange(_, _, _)
SliceRange(lower, upper, step) ==
    IF (step > 0 /\ lower >= upper) \/ (step < 0 /\ lower <= upper) THEN <<>>
    ELSE <<lower>> \o SliceRange(lower + step, upper, step)

\* The 0-based positions list[start:stop:step] takes its elements from, in order.
SliceIndices(len, start, stop, step) ==
    SliceRange(SliceBound(start, len, step, IF step < 0 THEN len - 1 ELSE 0),
               SliceBound(stop, len, step, IF step < 0 THEN -1 ELSE len),
               step)

\* node.value[start:stop:_step] (query.py:172): a list gives the slice; a dict
\* gives TypeError (a slice is unhashable; KeyError since Python 3.12).
GetItemSlice(value, start, stop, step) ==
    IF value.t = "arr"
    THEN [exc |-> "", positions |-> SliceIndices(Len(value.items), start, stop, step)]
    ELSE [exc |-> "TypeError", positions |-> <<>>]

\* The int a Python number is: bool is a subclass of int.
PyInt(v) == IF v.t = "bool" THEN (IF v.b THEN 1 ELSE 0) ELSE v.n

IsPyNumber(v) == v.t \in {"num", "bool"}

\* left == right of two JSON-like values: numbers (bools among them) by
\* value, lists element by element, dicts member by member in any order.
RECURSIVE PyEq(_, _)
RECURSIVE PyEqItems(_, _, _)
RECURSIVE PyEqMembers(_, _, _)
PyEqItems(a, b, i) ==
    IF i > Len(a) THEN TRUE
    ELSE PyEq(a[i], b[i]) /\ PyEqItems(a, b, i + 1)

PyEqMembers(x, y, i) ==
    IF i > Len(x.names) THEN TRUE
    ELSE LET p == MemberPos(y.names, x.names[i], 1)
         IN p # 0 /\ PyEq(x.items[i], y.items[p]) /\ PyEqMembers(x, y, i + 1)

PyEq(x, y) ==
    IF IsPyNumber(x) /\ IsPyNumber(y) THEN PyInt(x) = PyInt(y)
    ELSE IF x.t # y.t THEN FALSE
    ELSE IF x.t = "null" THEN TRUE
    ELSE IF x.t = "str" THEN x.s = y.s
    ELSE IF x.t = "arr" THEN Len(x.items) = Len(y.items) /\ PyEqItems(x.items, y.items, 1)
    ELSE Len(x.names) = Len(y.names) /\ PyEqMembers(x, y, 1)

\* ord(c) of the characters strings are made of.
Ord(c) ==
    CASE c = "'" -> 39
      [] c = "\\" -> 92
      [] c = "a" -> 97
      [] c = "b" -> 98
      [] c = "c" -> 99
      [] OTHER -> 120

\* left < right of two str: by code point, a proper prefix first.
RECURSIVE StrLt(_, _)
StrLt(x, y) ==
    IF y = <<>> THEN FALSE
    ELSE IF x = <<>> THEN TRUE
    ELSE IF Ord(Head(x)) # Ord(Head(y)) THEN Ord(Head(x)) < Ord(Head(y))
    ELSE StrLt(Tail(x), Tail(y))

\* len(obj): of a str, a list or a dict; TypeError for anything else.
HasLen(v) == v.t \in {"str", "arr", "obj"}

PyLen(v) == IF v.t = "str" THEN Len(v.s) ELSE Len(v.items)

-----------------------------------------------------------------------------
(* The function extensions (function_extensions/*.py).  A function object   *)
(* is named by its class.                                                   *)

FilterFunctions == {"Length", "Count", "Match", "Search", "Value"}

arg_types(func) ==
    CASE func = "Length" -> <<"Value">>
      [] func = "Count" -> <<"Nodes">>
      [] func = "Value" -> <<"Nodes">>
      [] OTHER -> <<"Value", "Value">>

return_type(func) == IF func \in {"Match", "Search"} THEN "Logical" ELSE "Value"

\* Length.__call__: len(obj), and NOTHING when obj has no len().
Length(obj) ==
    IF obj.kind = "nodes" THEN PyValue(JNum(Len(obj.nodes)))
    ELSE IF obj.kind = "value" /\ HasLen(obj.val) THEN PyValue(JNum(PyLen(obj.val)))
    ELSE NOTHING

\* Count.__call__: len(node_list); len() of an object without one raises.
Count(node_list) ==
    IF node_list.kind = "nodes" THEN PyValue(JNum(Len(node_list.nodes)))
    ELSE IF node_list.kind = "value" /\ HasLen(node_list.val)
         THEN PyValue(JNum(PyLen(node_list.val)))
    ELSE ExprRaise("TypeError")

\* Value.__call__: nodes[0].value of a node list of one node, else NOTHING.
\* Handed a str, list or dict of length one it fails on nodes[0].value.
Value(nodes) ==
    IF nodes.kind = "nodes"
    THEN (IF Len(nodes.nodes) = 1 THEN PyValue(nodes.nodes[1].value) ELSE NOTHING)
    ELSE IF nodes.kind = "value" /\ HasLen(nodes.val)
         THEN (IF PyLen(nodes.val) # 1 THEN NOTHING
               ELSE IF nodes.val.t = "obj" THEN ExprRaise("KeyError")
               ELSE ExprRaise("AttributeError"))
    ELSE ExprRaise("TypeError")

\* The string a pattern matches when it is a literal: over the characters
\* of this model a pattern is an I-Regexp iff every backslash in it is
\* followed by a backslash (iregexp_check.check), and it then stands for
\* itself with each such pair read as one backslash.
RECURSIVE PatternLiteral(_)
PatternLiteral(p) ==
    IF p = <<>> THEN [ok |-> TRUE, s |-> <<>>]
    ELSE IF Head(p) # "\\"
         THEN LET r == PatternLiteral(Tail(p)) IN [ok |-> r.ok, s |-> <<Head(p)>> \o r.s]
    ELSE IF Len(p) >= 2 /\ p[2] = "\\"
         THEN LET r == PatternLiteral(Tail(Tail(p))) IN [ok |-> r.ok, s |-> <<"\\">> \o r.s]
    ELSE [ok |-> FALSE, s |-> <<>>]

Contains(s, sub) ==
    \E i \in 1..(Len(s) - Len(sub) + 1) : SubSeq(s, i, i + Len(sub) - 1) = sub

IsStr(obj) == obj.kind = "value" /\ obj.val.t = "str"

\* Match.__call__: re.fullmatch of the pattern; False unless both are str
\* and the pattern is an I-Regexp.
Match(string, pattern) ==
    IF ~IsStr(pattern) \/ ~PatternLiteral(pattern.val.s).ok THEN PyValue(JBool(FALSE))
    ELSE IF ~IsStr(string) THEN PyValue(JBool(FALSE))
    ELSE PyValue(JBool(string.val.s = PatternLiteral(pattern.val.s).s))

\* Search.__call__: re.search of the pattern.
Search(string, pattern) ==
    IF ~IsStr(pattern) \/ ~PatternLiteral(pattern.val.s).ok THEN PyValue(JBool(FALSE))
    ELSE IF ~IsStr(string) THEN PyValue(JBool(FALSE))
    ELSE PyValue(JBool(Len(PatternLiteral(pattern.val.s).s) = 0
                       \/ Contains(string.val.s, PatternLiteral(pattern.val.s).s)))

\* func(*args): a call with the wrong number of arguments raises TypeError.
Call(func, args) ==
    IF Len(args) # Len(arg_types(func)) THEN ExprRaise("TypeError")
    ELSE CASE func = "Length" -> Length(args[1])
           [] func = "Count" -> Count(args[1])
           [] func = "Value" -> Value(args[1])
           [] func = "Match" -> Match(args[1], args[2])
           [] OTHER -> Search(args[1], args[2])

-----------------------------------------------------------------------------
(* query.py: truthiness, the logical and comparison operators.              *)

\* bool(obj) of a JSON-like value.
PyBool(v) ==
    CASE v.t = "bool" -> v.b
      [] v.t = "num" -> v.n # 0
      [] v.t = "str" -> v.s # <<>>
      [] v.t = "null" -> FALSE
      [] OTHER -> v.items # <<>>

\* (_is_truthy_of_python: a variant that is bool(obj) throughout, None
\* false as in Python.)
_is_truthy_of_python(obj) ==
    IF obj.kind = "nodes" THEN Len(obj.nodes) # 0
    ELSE IF obj.kind = "nothing" THEN FALSE
    ELSE PyBool(obj.val)

_is_truthy(obj) ==
    IF obj.kind = "nodes" /\ Len(obj.nodes) = 0 THEN FALSE
    ELSE IF obj.kind = "nothing" THEN FALSE
    ELSE IF obj.kind = "value" /\ obj.val.t = "null" THEN TRUE
    ELSE IF obj.kind = "nodes" THEN TRUE
    ELSE PyBool(obj.val)

_logical(left, operator, right) ==
    IF operator = "And" THEN _is_truthy(left) /\ _is_truthy(right)
    ELSE _is_truthy(left) \/ _is_truthy(right)

IsBool(obj) == obj.kind = "value" /\ obj.val.t = "bool"

\* left == right with neither a node list (query.py:380-390).  NOTHING is
\* equal to NOTHING only (Nothing.__eq__).
EqValues(left, right) ==
    IF left.kind = "nothing" /\ right.kind = "nothing" THEN TRUE
    ELSE IF IsBool(left) \/ IsBool(right)
         THEN IsBool(left) /\ IsBool(right) /\ left.val.b = right.val.b
    ELSE IF left.kind = "nothing" \/ right.kind = "nothing" THEN FALSE
    ELSE PyEq(left.val, right.val)

\* left == right with left a node list (query.py:371-378).  The nodes of
\* two lists are distinct objects without __eq__, so two lists are equal
\* only when both are empty, and a node is never equal to a value.
EqNodeList(left, right) ==
    IF right.kind = "nodes" THEN Len(left.nodes) = 0 /\ Len(right.nodes) = 0
    ELSE IF Len(left.nodes) = 0 THEN right.kind = "nothing"
    ELSE FALSE

_eq(left, right) ==
    IF right.kind = "nodes" THEN EqNodeList(right, left)
    ELSE IF left.kind = "nodes" THEN EqNodeList(left, right)
    ELSE EqValues(left, right)

_lt(left, right) ==
    IF IsStr(left) /\ IsStr(right) THEN StrLt(left.val.s, right.val.s)
    ELSE IF left.kind = "value" /\ right.kind = "value"
            /\ IsPyNumber(left.val) /\ IsPyNumber(right.val)
         THEN PyInt(left.val) < PyInt(right.val)
    ELSE FALSE

_compare(left, operator, right) ==
    CASE operator = "Eq" -> _eq(left, right)
      [] operator = "Ne" -> ~_eq(left, right)
      [] operator = "Lt" -> _lt(left, right)
      [] operator = "Gt" -> _lt(right, left)
      [] operator = "Ge" -> _lt(right, left) \/ _eq(left, right)
      [] OTHER -> _lt(left, right) \/ _eq(left, right)

\* (UnpackArgOfAnyKind: a variant that unpacks a node list whatever kind
\* the parameter is declared with.)
UnpackArgOfAnyKind(arg_type, a) ==
    IF a.kind = "nodes"
    THEN (IF Len(a.nodes) = 0 THEN NOTHING
          ELSE IF Len(a.nodes) = 1 THEN PyValue(a.nodes[1].value)
          ELSE a)
    ELSE a

\* One argument of a call, as _unpack_node_lists passes it on.
UnpackArg(arg_type, a) ==
    IF arg_type # "Nodes" /\ a.kind = "nodes"
    THEN (IF Len(a.nodes) = 0 THEN NOTHING
          ELSE IF Len(a.nodes) = 1 THEN PyValue(a.nodes[1].value)
          ELSE a)
    ELSE a

_unpack_node_lists(func, args) ==
    [idx \in 1..Len(args) |-> UnpackArg(arg_types(func)[idx], args[idx])]

\* A comparison operand: a node list of one node stands for its value
\* (query.py:275-276 and 284-285).
Operand(obj) ==
    IF obj.kind = "nodes" /\ Len(obj.nodes) = 1 THEN PyValue(obj.nodes[1].value) ELSE obj

-----------------------------------------------------------------------------
(* query.py: the evaluator.  env is the environment's function register as  *)
(* it is when the evaluation runs: query.py looks a function up by name at  *)
(* each call (query.py:310).                                                *)

\* The exceptions each selector suppresses (query.py:155, 161 and 171).
\* (NameSuppressedKeyOnly: a variant that forgets the values that are no
\* mapping.)
NameSuppressedKeyOnly == {"KeyError"}

NameSuppressed == {"KeyError", "TypeError"}

IndexSuppressed == {"IndexError", "TypeError", "KeyError"}

SliceSuppressed == {"ValueError", "TypeError", "KeyError"}

\* `with suppress(...)`: a suppressed exception ends the block quietly.
Suppress(exc, suppressed, nodes) ==
    IF exc = "" THEN Ok(nodes)
    ELSE IF exc \in suppressed THEN Ok(<<>>)
    ELSE Raise(exc)

\* The children of a container, as Wild and Filter name them.
ChildLocation(node, i) ==
    node.location
        \o <<IF node.value.t = "obj" THEN LName(node.value.names[i]) ELSE LIndex(i - 1)>>

ChildNode(node, i) == JSONPathNode(node.value.items[i], ChildLocation(node, i))

\* Depth-first, pre-order traversal; only containers are visited.  depth
\* is passed down and never read: the check of it is a TODO (query.py:122).
RECURSIVE _visit(_, _)
RECURSIVE VisitChildren(_, _, _)
VisitChildren(node, i, depth) ==
    IF i > Len(node.value.items) THEN <<>>
    ELSE (IF IsContainer(node.value.items[i])
          THEN _visit(ChildNode(node, i), depth + 1)
          ELSE <<>>)
         \o VisitChildren(node, i + 1, depth)

\* (_visit_post_order: a variant that yields a node after its descendants.)
_visit_post_order(node, depth) == VisitChildren(node, 1, depth) \o <<node>>

_visit(node, depth) == <<node>> \o VisitChildren(node, 1, depth)

\* The nodes a slice yields: the k-th element of the Python slice gets the
\* location i + (k - 1) * _step, i being `start or 0` (query.py:169-178).
SliceNodes(node, positions, i, _step) ==
    [k \in 1..Len(positions) |->
        JSONPathNode(node.value.items[positions[k] + 1],
                     node.location \o <<LIndex(i + (k - 1) * _step)>>)]

\* Two generators run one after the other: the nodes of both, or the
\* exception of the first that raises.
Chain(r, rest) ==
    IF r.err # "" THEN r
    ELSE IF rest.err # "" THEN rest
    ELSE Ok(r.nodes \o rest.nodes)

RECURSIVE finditer(_, _, _)
RECURSIVE Segments(_, _, _, _, _)
RECURSIVE NextSegment(_, _, _, _, _)
RECURSIVE resolve_child_segment(_, _, _, _)
RECURSIVE resolve_descendant_segment(_, _, _, _)
RECURSIVE SelectorsOver(_, _, _, _, _)
RECURSIVE NodesOver(_, _, _, _, _)
RECURSIVE resolve_selector(_, _, _, _)
RECURSIVE FilterOver(_, _, _, _, _)
RECURSIVE evaluate_filter(_, _, _, _)
RECURSIVE evaluate_filter_expression(_, _, _, _)
RECURSIVE EvaluateArgs(_, _, _, _, _)

\* for selector in selectors: yield from resolve_selector(...)
SelectorsOver(env, root, node, selectors, j) ==
    IF j > Len(selectors) THEN Ok(<<>>)
    ELSE Chain(resolve_selector(env, root, node, selectors[j]),
               SelectorsOver(env, root, node, selectors, j + 1))

\* for node in nodes: for selector in selectors: ...
NodesOver(env, root, nodes, selectors, i) ==
    IF i > Len(nodes) THEN Ok(<<>>)
    ELSE Chain(SelectorsOver(env, root, nodes[i], selectors, 1),
               NodesOver(env, root, nodes, selectors, i + 1))

\* node for node in nodes if isinstance(node.value, (dict, list))
Containers(nodes) == SelectSeq(nodes, LAMBDA node : IsContainer(node.value))

\* Every node _visit yields for the nodes, in order.
RECURSIVE VisitAll(_)
VisitAll(nodes) ==
    IF nodes = <<>> THEN <<>> ELSE _visit(Head(nodes), 1) \o VisitAll(Tail(nodes))

resolve_child_segment(env, root, nodes, selectors) ==
    NodesOver(env, root, Containers(nodes), selectors, 1)

resolve_descendant_segment(env, root, nodes, selectors) ==
    NodesOver(env, root, VisitAll(Containers(nodes)), selectors, 1)

\* if evaluate_filter(...): yield the child
FilterChild(node, i, r) ==
    IF r.err # "" THEN Raise(r.err)
    ELSE Ok(IF r.truthy THEN <<ChildNode(node, i)>> ELSE <<>>)

\* The children of node the filter expression is truthy for, from the i-th.
FilterOver(env, root, node, expression, i) ==
    IF i > Len(node.value.items) THEN Ok(<<>>)
    ELSE Chain(FilterChild(node, i,
                   evaluate_filter(env, expression, root, node.value.items[i])),
               FilterOver(env, root, node, expression, i + 1))

\* with suppress(KeyError, TypeError): yield the member of the name
NameNode(node, name, r) ==
    Suppress(r.exc, NameSuppressed,
             <<JSONPathNode(r.value, node.location \o <<LName(name)>>)>>)

\* with suppress(IndexError, TypeError, KeyError): yield the element; the
\* location is the index as written (TODO: normalize index, query.py:162)
IndexNode(node, index, r) ==
    Suppress(r.exc, IndexSuppressed,
             <<JSONPathNode(r.value, node.location \o <<LIndex(index)>>)>>)

\* with suppress(ValueError, TypeError, KeyError): yield the elements
SliceNode(node, i, _step, r) ==
    Suppress(r.exc, SliceSuppressed, SliceNodes(node, r.positions, i, _step))

resolve_selector(env, root, node, selector) ==
    CASE selector.kind = "Name" ->
            NameNode(node, selector.name, GetItemName(node.value, selector.name))
      [] selector.kind = "Index" ->
            IndexNode(node, selector.index, GetItemIndex(node.value, selector.index))
      [] selector.kind = "Slice" ->
            IF selector.step.some /\ selector.step.v = 0 THEN Ok(<<>>)
            ELSE SliceNode(node,
                           IF selector.start.some THEN selector.start.v ELSE 0,
                           IF selector.step.some THEN selector.step.v ELSE 1,
                           GetItemSlice(node.value, selector.start, selector.stop,
                                        IF selector.step.some THEN selector.step.v ELSE 1))
      [] selector.kind = "Wild" ->
            Ok([i \in 1..Len(node.value.items) |-> ChildNode(node, i)])
      [] selector.kind = "Filter" ->
            FilterOver(env, root, node, selector.expression[1], 1)
      [] OTHER -> Raise("ValueError")

\* The segments of a query from the k-th on, over the nodes so far.
Segments(env, root, nodes, segments, k) ==
    IF k > Len(segments) THEN Ok(nodes)
    ELSE NextSegment(env, root, segments, k,
             IF segments[k].kind = "Child"
             THEN resolve_child_segment(env, root, nodes, segments[k].selectors)
             ELSE IF segments[k].kind = "Recursive"
             THEN resolve_descendant_segment(env, root, nodes, segments[k].selectors)
             ELSE Raise("ValueError"))

\* The nodes r of the k-th segment are the input of the next.
NextSegment(env, root, segments, k, r) ==
    IF r.err # "" THEN r ELSE Segments(env, root, r.nodes, segments, k + 1)

\* JSONPathQuery.finditer; find() makes a list of it, so an exception of
\* any segment is an exception of find().
finditer(_query, env, value) ==
    Segments(env, value, <<JSONPathNode(value, <<>>)>>, _query.segments, 1)

\* _is_truthy(evaluate_filter_expression(...))
FilterResult(obj) == [err |-> obj.err, truthy |-> obj.err = "" /\ _is_truthy(obj)]

evaluate_filter(env, expression, root, current) ==
    FilterResult(evaluate_filter_expression(env, expression, root, current))

\* The values of the arguments so far and of the rest.
ArgsChain(a, rest) ==
    IF a.err # "" THEN [err |-> a.err, args |-> <<>>]
    ELSE IF rest.err # "" THEN rest
    ELSE [err |-> "", args |-> <<a>> \o rest.args]

\* [evaluate_filter_expression(arg) for arg in args], from the i-th.
EvaluateArgs(env, args, root, current, i) ==
    IF i > Len(args) THEN [err |-> "", args |-> <<>>]
    ELSE ArgsChain(evaluate_filter_expression(env, args[i], root, current),
                   EvaluateArgs(env, args, root, current, i + 1))

\* not _is_truthy(...)
NotOf(obj) == IF obj.err # "" THEN obj ELSE PyValue(JBool(~_is_truthy(obj)))

\* _compare(left, operator, right), the operands unwrapped first
ComparisonOf(_left, operator, _right) ==
    IF _left.err # "" THEN _left
    ELSE IF _right.err # "" THEN _right
    ELSE PyValue(JBool(_compare(Operand(_left), operator, Operand(_right))))

\* _logical(left, operator, right)
LogicalOf(left, operator, right) ==
    IF left.err # "" THEN left
    ELSE IF right.err # "" THEN right
    ELSE PyValue(JBool(_logical(left, operator, right)))

\* JSONPathNodeList(finditer(...))
NodeListOf(r) == IF r.err # "" THEN ExprRaise(r.err) ELSE JSONPathNodeList(r.nodes)

\* func(*_unpack_node_lists(func, args))
CallOf(func, _args) ==
    IF _args.err # "" THEN ExprRaise(_args.err)
    ELSE IF Len(_args.args) > Len(arg_types(func)) THEN ExprRaise("IndexError")
    ELSE Call(func, _unpack_node_lists(func, _args.args))

evaluate_filter_expression(env, expression, root, current) ==
    CASE expression.kind \in {"True_", "False_", "Null", "String", "Int", "Float"} ->
            PyValue(expression.value)
      [] expression.kind = "Not" ->
            NotOf(evaluate_filter_expression(env, expression.args[1], root, current))
      [] expression.kind = "Comparison" ->
            ComparisonOf(
                evaluate_filter_expression(env, expression.args[1], root, current),
                expression.operator,
                evaluate_filter_expression(env, expression.args[2], root, current))
      [] expression.kind = "Logical" ->
            LogicalOf(
                evaluate_filter_expression(env, expression.args[1], root, current),
                expression.operator,
                evaluate_filter_expression(env, expression.args[2], root, current))
      [] expression.kind = "RelativeQuery" ->
            NodeListOf(finditer(Query(expression.query), env, current))
      [] expression.kind = "RootQuery" ->
            NodeListOf(finditer(Query(expression.query), env, root))
      [] expression.kind = "Function" ->
            IF expression.name \notin DOMAIN env THEN NOTHING
            ELSE CallOf(env[expression.name],
                        EvaluateArgs(env, expression.args, root, current, 1))
      [] OTHER -> ExprRaise("ValueError")

\* JSONPathQuery.find
find(_query, env, value) == finditer(_query, env, value)

-----------------------------------------------------------------------------
(* node.py: the normalized path of a node.                                  *)

\* f"['{p}']" if isinstance(p, str) else f"[{p}]"
PathPart(p) ==
    IF p.k = "name" THEN <<"[", "'">> \o p.name \o <<"'", "]">>
    ELSE <<"[">> \o IntStr(p.index) \o <<"]">>

RECURSIVE PathParts(_)
PathParts(location) ==
    IF location = <<>> THEN <<>> ELSE PathPart(Head(location)) \o PathParts(Tail(location))

\* JSONPathNode.path
path(node) == <<"$">> \o PathParts(node.location)

-----------------------------------------------------------------------------
(* The native module jpq.jpq, part 1: the lexer.  Not among the sources;   *)
(* modelled from the specification (4.B).  The texts of this model hold no  *)
(* whitespace, no float literal and no escape other than \\ \' \" \b.       *)

Letters ==
    {"a", "b", "c", "d", "length", "count", "value", "match", "search", "f",
     "true", "false", "null"}

DigitChars == {"0", "1", "2", "3", "4", "5", "6", "7", "8", "9"}

Punctuation == {"$", "@", "#", "[", "]", ",", "*", "?", "(", ")", "~", ":"}

DigitValue(c) == CHOOSE d \in 0..9 : Digit(d) = c

Token(k, s, i) == [k |-> k, s |-> s, i |-> i]

\* The end of the run of characters of the class that starts at i.
RECURSIVE RunEnd(_, _, _)
RunEnd(text, i, class) ==
    IF i <= Len(text) /\ text[i] \in class THEN RunEnd(text, i + 1, class) ELSE i

\* int(digits)
RECURSIVE NatValue(_, _)
NatValue(digits, acc) ==
    IF digits = <<>> THEN acc
    ELSE NatValue(Tail(digits), 10 * acc + DigitValue(Head(digits)))

\* The body of a quoted string from position i: its characters with the
\* escapes resolved, and the position after the closing quote; ok is FALSE
\* for an unterminated string or an invalid escape.
RECURSIVE LexString(_, _, _)
LexString(text, i, quote) ==
    IF i > Len(text) THEN [ok |-> FALSE, s |-> <<>>, next |-> i]
    ELSE IF text[i] = quote THEN [ok |-> TRUE, s |-> <<>>, next |-> i + 1]
    ELSE IF text[i] = "\\"
         THEN IF i + 1 <= Len(text) /\ text[i + 1] \in {"\\", quote, "b"}
              THEN LET r == LexString(text, i + 2, quote)
                       c == IF text[i + 1] = "b" THEN "BACKSPACE" ELSE text[i + 1]
                   IN [ok |-> r.ok, s |-> <<c>> \o r.s, next |-> r.next]
              ELSE [ok |-> FALSE, s |-> <<>>, next |-> i]
    ELSE LET r == LexString(text, i + 1, quote)
         IN [ok |-> r.ok, s |-> <<text[i]>> \o r.s, next |-> r.next]

\* The tokens of text from position i on.
RECURSIVE Lex(_, _)
Lex(text, i) ==
    IF i > Len(text) THEN [err |-> "", msg |-> "", toks |-> <<>>]
    ELSE LET c == text[i]
             two == IF i < Len(text) THEN <<c, text[i + 1]>> ELSE <<c>>
             Then(tok, next) ==
                 LET r == Lex(text, next)
                 IN IF r.err # "" THEN r
                    ELSE [err |-> "", msg |-> "", toks |-> <<tok>> \o r.toks]
             Fail(msg) == [err |-> "SyntaxError", msg |-> msg, toks |-> <<>>]
         IN CASE c \in Punctuation -> Then(Token(c, <<>>, 0), i + 1)
              [] c = "." ->
                    IF two = <<".", ".">> THEN Then(Token("..", <<>>, 0), i + 2)
                    ELSE Then(Token(".", <<>>, 0), i + 1)
              [] c \in Letters ->
                    LET e == RunEnd(text, i, Letters \cup DigitChars)
                    IN Then(Token("ident", SubSeq(text, i, e - 1), 0), e)
              [] c \in DigitChars \/ c = "-" ->
                    LET first == IF c = "-" THEN i + 1 ELSE i
                        e == RunEnd(text, first, DigitChars)
                        digits == SubSeq(text, first, e - 1)
                    IN IF digits = <<>> \/ (Len(digits) > 1 /\ digits[1] = "0")
                          \/ (c = "-" /\ digits = <<"0">>)
                       THEN Fail("invalid number")
                       ELSE Then(Token("int", <<>>,
                                       IF c = "-" THEN -NatValue(digits, 0)
                                       ELSE NatValue(digits, 0)), e)
              [] c \in {"'", "\""} ->
                    LET r == LexString(text, i + 1, c)
                    IN IF r.ok THEN Then(Token("str", r.s, 0), r.next)
                       ELSE Fail("invalid string")
              [] two \in {<<"=", "=">>, <<"!", "=">>, <<"<", "=">>, <<">", "=">>,
                          <<"&", "&">>, <<"|", "|">>} ->
                    Then(Token(CASE c = "=" -> "==" [] c = "!" -> "!=" [] c = "<" -> "<="
                                 [] c = ">" -> ">=" [] c = "&" -> "&&" [] OTHER -> "||",
                               <<>>, 0), i + 2)
              [] Len(two) = 1 /\ c \in {"!", "<", ">"} -> Then(Token(c, <<>>, 0), i + 1)
              [] Len(two) = 2 /\ c \in {"!", "<", ">"} /\ two[2] # "=" ->
                    Then(Token(c, <<>>, 0), i + 1)
              [] OTHER -> Fail("unexpected character")

-----------------------------------------------------------------------------
(* The native module jpq.jpq, part 2: the parser.  Modelled from the        *)
(* specification (4.C): recursive descent over the tokens.  strictMode is   *)
(* the environment's strict flag.                                           *)

\* The message of the syntax error for a keys form in strict mode.  The
\* message quotes the tilde in grave accents, which a string here cannot
\* hold; they are left out.
KeysDisabled == "keys syntax (~) is disabled"

Parsed(val, next) == [err |-> "", msg |-> "", val |-> val, next |-> next]

ParseError(msg) == [err |-> "SyntaxError", msg |-> msg, val |-> <<>>, next |-> 0]

Tok(toks, i) == IF i <= Len(toks) THEN toks[i] ELSE Token("eof", <<>>, 0)

ComparisonOperator(k) ==
    CASE k = "==" -> "Eq" [] k = "!=" -> "Ne" [] k = "<" -> "Lt"
      [] k = ">" -> "Gt" [] k = "<=" -> "Le" [] OTHER -> "Ge"

ComparisonTokens == {"==", "!=", "<", ">", "<=", ">="}

\* An optional int at position i: [val, next].
OptionalInt(toks, i) ==
    IF Tok(toks, i).k = "int" THEN [val |-> Some(Tok(toks, i).i), next |-> i + 1]
    ELSE [val |-> None, next |-> i]

\* A slice, start ':' stop (':' step), each part optional; i is at its start.
ParseSlice(toks, i) ==
    LET start == OptionalInt(toks, i)
        stop == OptionalInt(toks, start.next + 1)
        hasStep == Tok(toks, stop.next).k = ":"
        step == IF hasStep THEN OptionalInt(toks, stop.next + 1)
                ELSE [val |-> None, next |-> stop.next]
    IN Parsed(SelSlice(start.val, stop.val, step.val), step.next)

RECURSIVE ParseSegments(_, _, _)
RECURSIVE SegmentsAfter(_, _, _)
RECURSIVE ParseSegment(_, _, _)
RECURSIVE ParseBracketed(_, _, _)
RECURSIVE BracketedAfter(_, _, _)
RECURSIVE ParseSelector(_, _, _)
RECURSIVE ParseOr(_, _, _)
RECURSIVE OrAfter(_, _, _)
RECURSIVE ParseAnd(_, _, _)
RECURSIVE AndAfter(_, _, _)
RECURSIVE ParseBasic(_, _, _)
RECURSIVE ComparisonAfter(_, _, _)
RECURSIVE ParseComparable(_, _, _)
RECURSIVE ParseArguments(_, _, _)
RECURSIVE ArgumentsAfter(_, _, _)

\* The parsed item first followed by the parsed items rest.
Cons(first, rest) ==
    IF rest.err # "" THEN rest ELSE Parsed(<<first.val>> \o rest.val, rest.next)

\* The one selector of a shorthand as a selector list.
AsList(sel) == IF sel.err # "" THEN sel ELSE Parsed(<<sel.val>>, sel.next)

AsSegment(kind, sels) ==
    IF sels.err # "" THEN sels ELSE Parsed(Segment(kind, sels.val), sels.next)

AsFilter(keys, e) ==
    IF e.err # "" THEN e
    ELSE Parsed(IF keys THEN SelKeysFilter(e.val) ELSE SelFilter(e.val), e.next)

AsQuery(k, segs) ==
    IF segs.err # "" THEN segs
    ELSE Parsed(IF k = "@" THEN ExprRelativeQuery(segs.val) ELSE ExprRootQuery(segs.val),
                segs.next)

AsCall(name, args) ==
    IF args.err # "" THEN args ELSE Parsed(ExprFunction(name, args.val), args.next)

\* '!' applies to a parenthesized expression or to a test, not to a comparison.
AsNot(toks, e) ==
    IF e.err # "" THEN e
    ELSE IF Tok(toks, e.next).k \in ComparisonTokens THEN ParseError("unexpected token")
    ELSE Parsed(ExprNot(e.val), e.next)

AsParenthesized(toks, e) ==
    IF e.err # "" THEN e
    ELSE IF Tok(toks, e.next).k = ")" THEN Parsed(e.val, e.next + 1)
    ELSE ParseError("unbalanced parentheses")

\* left, the operator after it, and right; a comparison does not chain.
AsComparison(toks, left, right) ==
    IF right.err # "" THEN right
    ELSE IF Tok(toks, right.next).k \in ComparisonTokens THEN ParseError("unexpected token")
    ELSE Parsed(ExprComparison(left.val, ComparisonOperator(Tok(toks, left.next).k),
                               right.val), right.next)

AsLogical(left, operator, right) ==
    IF right.err # "" THEN right
    ELSE Parsed(ExprLogical(left.val, operator, right.val), right.next)

\* The selector after '.' or '..': a name, '*' or, unless strict, '~' and
\* '~name'.
ParseShorthand(toks, i, strictMode) ==
    CASE Tok(toks, i).k = "ident" -> Parsed(SelName(Tok(toks, i).s), i + 1)
      [] Tok(toks, i).k = "*" -> Parsed(SelWild, i + 1)
      [] Tok(toks, i).k = "~" ->
            IF strictMode THEN ParseError(KeysDisabled)
            ELSE IF Tok(toks, i + 1).k = "ident"
                 THEN Parsed(SelKeyName(Tok(toks, i + 1).s), i + 2)
            ELSE Parsed(SelKeys, i + 1)
      [] OTHER -> ParseError("unexpected token")

\* One selector inside '[' ... ']'.
ParseSelector(toks, i, strictMode) ==
    CASE Tok(toks, i).k = "str" -> Parsed(SelName(Tok(toks, i).s), i + 1)
      [] Tok(toks, i).k = ":" -> ParseSlice(toks, i)
      [] Tok(toks, i).k = "int" ->
            IF Tok(toks, i + 1).k = ":" THEN ParseSlice(toks, i)
            ELSE Parsed(SelIndex(Tok(toks, i).i), i + 1)
      [] Tok(toks, i).k = "*" -> Parsed(SelWild, i + 1)
      [] Tok(toks, i).k = "?" -> AsFilter(FALSE, ParseOr(toks, i + 1, strictMode))
      [] Tok(toks, i).k = "~" ->
            IF strictMode THEN ParseError(KeysDisabled)
            ELSE IF Tok(toks, i + 1).k = "str"
                 THEN Parsed(SelKeyName(Tok(toks, i + 1).s), i + 2)
            ELSE IF Tok(toks, i + 1).k = "?"
                 THEN AsFilter(TRUE, ParseOr(toks, i + 2, strictMode))
            ELSE Parsed(SelKeys, i + 1)
      [] OTHER -> ParseError("unexpected token")

\* The selectors of a bracketed segment, i being after '[' or ','; at least
\* one, separated by ',', closed by ']'.
ParseBracketed(toks, i, strictMode) ==
    BracketedAfter(toks, ParseSelector(toks, i, strictMode), strictMode)

BracketedAfter(toks, sel, strictMode) ==
    IF sel.err # "" THEN sel
    ELSE IF Tok(toks, sel.next).k = "]" THEN Parsed(<<sel.val>>, sel.next + 1)
    ELSE IF Tok(toks, sel.next).k = ","
         THEN Cons(sel, ParseBracketed(toks, sel.next + 1, strictMode))
    ELSE ParseError("unexpected token")

\* One segment at position i: '[' selectors ']', '.' shorthand, '..'
\* followed by either.
ParseSegment(toks, i, strictMode) ==
    IF Tok(toks, i).k \notin {"[", ".", ".."} THEN ParseError("unexpected token")
    ELSE AsSegment(IF Tok(toks, i).k = ".." THEN "Recursive" ELSE "Child",
             IF Tok(toks, i).k = "["
             THEN ParseBracketed(toks, i + 1, strictMode)
             ELSE IF Tok(toks, i).k = ".." /\ Tok(toks, i + 1).k = "["
             THEN ParseBracketed(toks, i + 2, strictMode)
             ELSE AsList(ParseShorthand(toks, i + 1, strictMode)))

\* Zero or more segments from position i.
ParseSegments(toks, i, strictMode) ==
    IF Tok(toks, i).k \notin {"[", ".", ".."} THEN Parsed(<<>>, i)
    ELSE SegmentsAfter(toks, ParseSegment(toks, i, strictMode), strictMode)

SegmentsAfter(toks, seg, strictMode) ==
    IF seg.err # "" THEN seg
    ELSE Cons(seg, ParseSegments(toks, seg.next, strictMode))

\* The arguments of a function call, i being after '(' or ','.
ParseArguments(toks, i, strictMode) ==
    IF Tok(toks, i).k = ")" THEN Parsed(<<>>, i + 1)
    ELSE ArgumentsAfter(toks, ParseOr(toks, i, strictMode), strictMode)

ArgumentsAfter(toks, a, strictMode) ==
    IF a.err # "" THEN a
    ELSE IF Tok(toks, a.next).k = ")" THEN Parsed(<<a.val>>, a.next + 1)
    ELSE IF Tok(toks, a.next).k = "," /\ Tok(toks, a.next + 1).k # ")"
         THEN Cons(a, ParseArguments(toks, a.next + 1, strictMode))
    ELSE ParseError("unexpected token")

\* A literal, a query, '#' or a function call.
ParseComparable(toks, i, strictMode) ==
    CASE Tok(toks, i).k = "str" -> Parsed(ExprString(Tok(toks, i).s), i + 1)
      [] Tok(toks, i).k = "int" -> Parsed(ExprInt(Tok(toks, i).i), i + 1)
      [] Tok(toks, i).k = "#" -> Parsed(ExprCurrentKey, i + 1)
      [] Tok(toks, i).k \in {"@", "$"} ->
            AsQuery(Tok(toks, i).k, ParseSegments(toks, i + 1, strictMode))
      [] Tok(toks, i).k = "ident" ->
            IF Tok(toks, i + 1).k = "("
            THEN AsCall(Tok(toks, i).s, ParseArguments(toks, i + 2, strictMode))
            ELSE IF Tok(toks, i).s = <<"true">> THEN Parsed(ExprTrue, i + 1)
            ELSE IF Tok(toks, i).s = <<"false">> THEN Parsed(ExprFalse, i + 1)
            ELSE IF Tok(toks, i).s = <<"null">> THEN Parsed(ExprNull, i + 1)
            ELSE ParseError("unexpected token")
      [] OTHER -> ParseError("unexpected token")

\* '!' basic, '(' expr ')', or a comparable with at most one comparison.
ParseBasic(toks, i, strictMode) ==
    CASE Tok(toks, i).k = "!" ->
            AsNot(toks, IF Tok(toks, i + 1).k = "("
                        THEN ParseBasic(toks, i + 1, strictMode)
                        ELSE ParseComparable(toks, i + 1, strictMode))
      [] Tok(toks, i).k = "(" ->
            AsParenthesized(toks, ParseOr(toks, i + 1, strictMode))
      [] OTHER ->
            ComparisonAfter(toks, ParseComparable(toks, i, strictMode), strictMode)

ComparisonAfter(toks, left, strictMode) ==
    IF left.err # "" THEN left
    ELSE IF Tok(toks, left.next).k \notin ComparisonTokens THEN left
    ELSE AsComparison(toks, left, ParseComparable(toks, left.next + 1, strictMode))

ParseAnd(toks, i, strictMode) ==
    AndAfter(toks, ParseBasic(toks, i, strictMode), strictMode)

AndAfter(toks, left, strictMode) ==
    IF left.err # "" THEN left
    ELSE IF Tok(toks, left.next).k # "&&" THEN left
    ELSE AsLogical(left, "And", ParseAnd(toks, left.next + 1, strictMode))

ParseOr(toks, i, strictMode) ==
    OrAfter(toks, ParseAnd(toks, i, strictMode), strictMode)

OrAfter(toks, left, strictMode) ==
    IF left.err # "" THEN left
    ELSE IF Tok(toks, left.next).k # "||" THEN left
    ELSE AsLogical(left, "Or", ParseOr(toks, left.next + 1, strictMode))

\* The query of the tokens: '$', segments, and nothing after them.
AsQueryText(toks, segs) ==
    IF segs.err # "" THEN segs
    ELSE IF segs.next <= Len(toks) THEN ParseError("unexpected token")
    ELSE Parsed(Query(segs.val), segs.next)

ParseTokens(lexed, strictMode) ==
    IF lexed.err # "" THEN ParseError(lexed.msg)
    ELSE IF Tok(lexed.toks, 1).k # "$" THEN ParseError("expected '$'")
    ELSE AsQueryText(lexed.toks, ParseSegments(lexed.toks, 2, strictMode))

\* A query text.
Parse(text, strictMode) == ParseTokens(Lex(text, 1), strictMode)

-----------------------------------------------------------------------------
(* The native module jpq.jpq, part 3: the well-typedness checker.  Modelled *)
(* from the specification (4.D).  register is the function register the     *)
(* query is compiled against.                                               *)

Literals == {"True_", "False_", "Null", "String", "Int", "Float"}

Queries == {"RelativeQuery", "RootQuery"}

\* A singular query: every segment is a child segment of exactly one
\* selector, a Name or a non-negative Index.
\* A checker that takes any index, and a slice, for singular.
IsSingularSelectorLoose(selector) == selector.kind \in {"Name", "Index", "Slice"}

IsSingularSelector(selector) ==
    selector.kind = "Name" \/ (selector.kind = "Index" /\ selector.index >= 0)

IsSingularQuery(segments) ==
    \A k \in 1..Len(segments) :
        /\ segments[k].kind = "Child"
        /\ Len(segments[k].selectors) = 1
        /\ IsSingularSelector(segments[k].selectors[1])

RECURSIVE WellTypedSegments(_, _)
RECURSIVE WellTypedTest(_, _)
RECURSIVE WellTypedComparable(_, _)
RECURSIVE WellTypedCall(_, _)
RECURSIVE WellTypedArgument(_, _, _)

\* Every filter of every selector of the segments is well-typed.
WellTypedSegments(segments, register) ==
    \A k \in 1..Len(segments) :
        \A j \in 1..Len(segments[k].selectors) :
            LET selector == segments[k].selectors[j]
            IN selector.kind \in {"Filter", "KeysFilter"}
                  => WellTypedTest(selector.expression[1], register)

\* An operand of a comparison: a literal, `#`, a singular query or a call
\* of a function that returns a Value.
WellTypedComparable(e, register) ==
    CASE e.kind \in Literals \cup {"CurrentKey"} -> TRUE
      [] e.kind \in Queries -> IsSingularQuery(e.query)
      [] e.kind = "Function" ->
            WellTypedCall(e, register) /\ return_type(register[e.name]) = "Value"
      [] OTHER -> FALSE

\* An expression where a logical value is expected (a filter, an operand
\* of !, && or ||): a comparison, a logical expression, a query (an
\* existence test) or a call of a function that returns Logical or Nodes.
WellTypedTest(e, register) ==
    CASE e.kind = "Comparison" ->
            WellTypedComparable(e.args[1], register)
                /\ WellTypedComparable(e.args[2], register)
      [] e.kind = "Logical" ->
            WellTypedTest(e.args[1], register) /\ WellTypedTest(e.args[2], register)
      [] e.kind = "Not" -> WellTypedTest(e.args[1], register)
      [] e.kind \in Queries -> WellTypedSegments(e.query, register)
      [] e.kind = "Function" ->
            WellTypedCall(e, register)
                /\ return_type(register[e.name]) \in {"Logical", "Nodes"}
      [] OTHER -> FALSE

\* An argument against the kind the function declares for it.
WellTypedArgument(e, declared, register) ==
    CASE declared = "Value" -> WellTypedComparable(e, register)
      [] declared = "Logical" ->
            WellTypedTest(e, register) \/ WellTypedComparable(e, register)
      [] OTHER ->
            \/ e.kind \in Queries /\ WellTypedSegments(e.query, register)
            \/ /\ e.kind = "Function"
               /\ WellTypedCall(e, register)
               /\ return_type(register[e.name]) = "Nodes"

\* A call: the name is registered, the argument count is the declared one
\* and every argument fits its declared kind.
WellTypedCall(e, register) ==
    /\ e.name \in DOMAIN register
    /\ Len(e.args) = Len(arg_types(register[e.name]))
    /\ \A i \in 1..Len(e.args) :
           WellTypedArgument(e.args[i], arg_types(register[e.name])[i], register)

\* A compile that leaves the checker out: what the parser accepts compiles.
Unchecked(parsed, register) ==
    IF parsed.err # ""
    THEN [err |-> "JSONPathSyntaxError", msg |-> parsed.msg, query |-> Query(<<>>)]
    ELSE [err |-> "", msg |-> "", query |-> parsed.val]

\* Env.compile: the query, or the syntax error of the parser, or the type
\* error of the checker.
Checked(parsed, register) ==
    IF parsed.err # ""
    THEN [err |-> "JSONPathSyntaxError", msg |-> parsed.msg, query |-> Query(<<>>)]
    ELSE IF ~WellTypedSegments(parsed.val.segments, register)
    THEN [err |-> "JSONPathTypeError", msg |-> "not well-typed", query |-> Query(<<>>)]
    ELSE [err |-> "", msg |-> "", query |-> parsed.val]

EnvCompile(register, strictMode, text) == Checked(Parse(text, strictMode), register)

-----------------------------------------------------------------------------
(* The native module jpq.jpq, part 4: evaluation.  The selectors query.py   *)
(* resolves are resolved as query.py resolves them; the keys selectors,     *)
(* which query.py does not know, are modelled from the specification (4.F). *)

KeysFamily == {"Keys", "KeysFilter", "KeyName"}

\* A keys selector that yields the member as Wild does: its value, at the
\* member's own location.
KeyNodeOfMember(node, i) == ChildNode(node, i)

\* The node of the i-th member's name: the name as a string, the location
\* ending with the key marker.
KeyNode(node, i) ==
    JSONPathNode(JStr(node.value.names[i]),
                 node.location \o <<LKey(node.value.names[i])>>)

\* The name of the one member, if the object has it.
KeyNameNode(node, position) ==
    Ok(IF position = 0 THEN <<>> ELSE <<KeyNode(node, position)>>)

\* The key of the i-th member if the filter is truthy for the member.
KeysFilterChild(node, i, r) ==
    IF r.err # "" THEN Raise(r.err)
    ELSE Ok(IF r.truthy THEN <<KeyNode(node, i)>> ELSE <<>>)

RECURSIVE KeysFilterOver(_, _, _, _, _)
KeysFilterOver(env, root, node, expression, i) ==
    IF i > Len(node.value.items) THEN Ok(<<>>)
    ELSE Chain(KeysFilterChild(node, i,
                   evaluate_filter(env, expression, root, node.value.items[i])),
               KeysFilterOver(env, root, node, expression, i + 1))

\* Keys, KeyName and KeysFilter: the names of an object's members, in
\* document order; nothing for an array.
resolve_keys_selector(env, root, node, selector) ==
    IF node.value.t # "obj" THEN Ok(<<>>)
    ELSE CASE selector.kind = "Keys" ->
                 Ok([i \in 1..Len(node.value.names) |-> KeyNode(node, i)])
           [] selector.kind = "KeyName" ->
                 KeyNameNode(node, MemberPos(node.value.names, selector.name, 1))
           [] OTHER -> KeysFilterOver(env, root, node, selector.expression[1], 1)

RECURSIVE NativeSelectors(_, _, _, _, _)
NativeSelectors(env, root, node, selectors, j) ==
    IF j > Len(selectors) THEN Ok(<<>>)
    ELSE Chain(IF selectors[j].kind \in KeysFamily
               THEN resolve_keys_selector(env, root, node, selectors[j])
               ELSE resolve_selector(env, root, node, selectors[j]),
               NativeSelectors(env, root, node, selectors, j + 1))

RECURSIVE NativeNodes(_, _, _, _, _)
NativeNodes(env, root, nodes, selectors, i) ==
    IF i > Len(nodes) THEN Ok(<<>>)
    ELSE Chain(NativeSelectors(env, root, nodes[i], selectors, 1),
               NativeNodes(env, root, nodes, selectors, i + 1))

RECURSIVE NativeSegments(_, _, _, _, _)
RECURSIVE NativeNextSegment(_, _, _, _, _)
NativeSegments(env, root, nodes, segments, k) ==
    IF k > Len(segments) THEN Ok(nodes)
    ELSE NativeNextSegment(env, root, segments, k,
             NativeNodes(env, root,
                         IF segments[k].kind = "Child" THEN Containers(nodes)
                         ELSE VisitAll(Containers(nodes)),
                         segments[k].selectors, 1))

NativeNextSegment(env, root, segments, k, r) ==
    IF r.err # "" THEN r ELSE NativeSegments(env, root, r.nodes, segments, k + 1)

\* The result of a query as the host sees it.
Returned(r) == [err |-> r.err, msg |-> "", nodes |-> r.nodes]

\* Env.query: the evaluation of a compiled query with the register of the
\* Env.
EnvQuery(register, _query, value) ==
    Returned(NativeSegments(register, value, <<JSONPathNode(value, <<>>)>>,
                            _query.segments, 1))

\* A name inside the quotes of a normalized path: every ' and every \ is
\* preceded by a \ (specification, normalized path format).
RECURSIVE Escaped(_)
Escaped(name) ==
    IF name = <<>> THEN <<>>
    ELSE (IF Head(name) \in {"'", "\\"} THEN <<"\\", Head(name)>> ELSE <<Head(name)>>)
         \o Escaped(Tail(name))

\* The normalized path of a node: a name as ['name'] with the name escaped,
\* an index as [i], the key marker as [~'name'].
NativePathPart(p) ==
    IF p.k = "key" THEN <<"[", "~", "'">> \o Escaped(p.name) \o <<"'", "]">>
    ELSE IF p.k = "name" THEN <<"[", "'">> \o Escaped(p.name) \o <<"'", "]">>
    ELSE <<"[">> \o IntStr(p.index) \o <<"]">>

RECURSIVE NativePathParts(_)
NativePathParts(location) ==
    IF location = <<>> THEN <<>>
    ELSE NativePathPart(Head(location)) \o NativePathParts(Tail(location))

NativePath(node) == <<"$">> \o NativePathParts(node.location)

\* Env.find: compile, then evaluate.
QueryCompiled(register, c, value) ==
    IF c.err # "" THEN [err |-> c.err, msg |-> c.msg, nodes |-> <<>>]
    ELSE EnvQuery(register, c.query, value)

EnvFind(register, strictMode, text, value) ==
    QueryCompiled(register, EnvCompile(register, strictMode, text), value)

-----------------------------------------------------------------------------
(* env.py: JSONPathEnvironment and JSONPathQuery.                           *)

\* The keyword arguments of JSONPathEnvironment(): none, or strict.
NoKwargs == [given |-> FALSE, strict |-> FALSE]

StrictKwarg(b) == [given |-> TRUE, strict |-> b]

\* An environment whose default is strict=False.
StrictDefaultOff == FALSE

\* def __init__(self, *, strict: bool = True)
StrictDefault == TRUE

StrictOf(kw) == IF kw.given THEN kw.strict ELSE StrictDefault

\* Env(self._function_extensions, NOTHING, strict=self._strict): an Env
\* is immutable after construction (4.E) and holds the register as it is
\* when the Env is made.  The environment makes its Env anew at
\* construction and after every registration (env.py:33 and 38), so
\* self._env is always the Env of the dict and the flag as they are.
_Env(register, strictMode) == [register |-> register, strict |-> strictMode]

setup_function_extensions ==
    (<<"length">> :> "Length") @@ (<<"count">> :> "Count") @@ (<<"match">> :> "Match")
        @@ (<<"search">> :> "Search") @@ (<<"value">> :> "Value")

\* self._function_extensions[name] = ext
add_function_extension(register, name, ext) ==
    [n \in DOMAIN register \cup {name} |-> IF n = name THEN ext ELSE register[n]]

\* A JSONPathQuery (or the exception of compile), and no query at all.
JSONPathQuery(_query, _env) == [held |-> TRUE, _query |-> _query, _env |-> _env]

NoQuery ==
    [held |-> FALSE, _query |-> Query(<<>>),
     _env |-> _Env(setup_function_extensions, StrictDefault)]

\* JSONPathQuery(c, env=self._env), or the exception of c
AsJSONPathQuery(c, _env) ==
    [err |-> c.err, msg |-> c.msg, query |-> JSONPathQuery(c.query, _env)]

\* A compile that uses an Env of its own, made with the default flag,
\* instead of self._env.
compile_default_env(_env, query) ==
    AsJSONPathQuery(EnvCompile(_env.register, StrictDefault, query), _env)

\* JSONPathEnvironment.compile: JSONPathQuery(self._env.compile(query), env=self._env)
compile(_env, query) ==
    AsJSONPathQuery(EnvCompile(_env.register, _env.strict, query), _env)

\* JSONPathEnvironment.find: JSONPathNodeList(self._env.find(query, value))
EnvironmentFind(_env, query, value) ==
    EnvFind(_env.register, _env.strict, query, value)

\* A find that evaluates with the Env the environment has now instead of
\* self._env, the Env the query was compiled by.
QueryFindOfEnvironment(q, value) ==
    EnvQuery(_Env(function_extensions, strict).register, q._query, value)

\* JSONPathQuery.find: JSONPathNodeList(self._env.query(self._query, value))
QueryFind(q, value) == EnvQuery(q._env.register, q._query, value)

\* What an operation that returns None leaves as its result.
ReturnedNone == [err |-> "", msg |-> "", nodes |-> <<>>]

-----------------------------------------------------------------------------
(* SpecEnv: a host that creates an environment, registers function          *)
(* extensions, compiles queries and applies them to a document, in any      *)
(* order.                                                                   *)

A == <<"a">>

B == <<"b">>

\* The names the host registers functions under, and the functions.
ExtensionNames == {<<"length">>, <<"f">>}

Extensions == {"Length", "Count"}

\* $[?fn(@.a)==1]
CallText(fn) == <<"$", "[", "?", fn, "(", "@", ".", "a", ")", "=", "=", "1", "]">>

\* The query texts of the host: $..a, calls of three functions (f is not
\* registered at first), $.~, the malformed $[ and the ill-typed
\* $[?@.*==1].
EnvTexts ==
    {<<"$", ".", ".", "a">>, <<"$", ".", "~">>, <<"$", "[">>,
     <<"$", "[", "?", "@", ".", "*", "=", "=", "1", "]">>}
        \cup {CallText(fn) : fn \in {"length", "count", "f"}}

\* [{"a": "ab"}, {"a": [1]}, {"a": 1}] and {"a": 1, "b": {"a": [1]}}
EnvDocs ==
    {JArr(<<JObj(<<A>>, <<JStr(<<"a", "b">>)>>), JObj(<<A>>, <<JArr(<<JNum(1)>>)>>),
            JObj(<<A>>, <<JNum(1)>>)>>),
     JObj(<<A, B>>, <<JNum(1), JObj(<<A>>, <<JArr(<<JNum(1)>>)>>)>>)}

\* JSONPathEnvironment() or JSONPathEnvironment(strict=False), and a document.
InitEnv ==
    /\ kwargs \in {NoKwargs, StrictKwarg(FALSE)}
    /\ strict = StrictOf(kwargs)
    /\ function_extensions = setup_function_extensions
    /\ compiled = NoQuery
    /\ doc \in EnvDocs
    /\ op = "init"
    /\ arg = <<>>
    /\ result = ReturnedNone
    /\ second = ReturnedNone

\* env.add_function_extension(name, ext)
AddFunctionExtension(name, ext) ==
    /\ function_extensions' = add_function_extension(function_extensions, name, ext)
    /\ op' = "add_function_extension"
    /\ arg' = name
    /\ result' = ReturnedNone
    /\ UNCHANGED <<kwargs, strict, compiled, doc, second>>

\* Q = env.compile(text); first = Q.find(doc).  An exception of compile
\* leaves the host with the query it had and with what that query found.
Compiled(text, c) ==
    /\ compiled' = IF c.err = "" THEN c.query ELSE compiled
    /\ second' = IF c.err = "" THEN QueryFind(c.query, doc) ELSE second
    /\ op' = "compile"
    /\ arg' = text
    /\ result' = [err |-> c.err, msg |-> c.msg, nodes |-> <<>>]
    /\ UNCHANGED <<kwargs, function_extensions, strict, doc>>

Compile(text) == Compiled(text, compile(_Env(function_extensions, strict), text))

\* env.find(text, doc)
Find(text) ==
    /\ op' = "find"
    /\ arg' = text
    /\ result' = EnvironmentFind(_Env(function_extensions, strict), text, doc)
    /\ UNCHANGED <<kwargs, function_extensions, strict, compiled, doc, second>>

\* Q.find(doc)
QFind ==
    /\ compiled.held
    /\ op' = "query.find"
    /\ arg' = <<>>
    /\ result' = QueryFind(compiled, doc)
    /\ UNCHANGED <<kwargs, function_extensions, strict, compiled, doc, second>>

NextEnv ==
    \/ \E name \in ExtensionNames, ext \in Extensions : AddFunctionExtension(name, ext)
    \/ \E text \in EnvTexts : Compile(text)
    \/ \E text \in EnvTexts : Find(text)
    \/ QFind

SpecEnv == InitEnv /\ [][NextEnv]_vars

\* The result is the exception of the compile c, or what its query finds.
FoundAsBy(c) ==
    IF c.err # "" THEN result.err = c.err /\ result.nodes = <<>>
    ELSE result = QueryFind(c.query, doc)

Called(text) == {<<text[i]>> : i \in {j \in 1..(Len(text) - 1) : text[j + 1] = "("}}

\* The names of the functions a compiled query calls.
RECURSIVE NamesInExpression(_)
RECURSIVE NamesInSegments(_)
NamesInExpression(e) ==
    CASE e.kind \in {"Function", "Not", "Comparison", "Logical"} ->
            (IF e.kind = "Function" THEN {e.name} ELSE {})
                \cup UNION {NamesInExpression(e.args[i]) : i \in 1..Len(e.args)}
      [] e.kind \in Queries -> NamesInSegments(e.query)
      [] OTHER -> {}

NamesInSegments(segments) ==
    UNION {UNION {IF segments[k].selectors[j].expression = NoExpr THEN {}
                  ELSE NamesInExpression(segments[k].selectors[j].expression[1]) :
                  j \in 1..Len(segments[k].selectors)} : k \in 1..Len(segments)}

\* C5: compile (and so find) raises a type error for a query that calls a
\* function name the register does not hold, and the compiled query the
\* host holds never calls a name that the register it is evaluated with
\* does not hold, so that the evaluation never finds a name missing.
UnknownFunctionRejected ==
    /\ (op \in {"compile", "find"} /\ ~(Called(arg) \subseteq DOMAIN function_extensions))
           => result.err = "JSONPathTypeError" /\ result.nodes = <<>>
    /\ compiled.held
           => NamesInSegments(compiled._query.segments) \subseteq DOMAIN compiled._env.register

\* compile of $[?f(@.a)==1] has raised the type error, f being unregistered,
\* while the host holds a compiled query that calls a function.
UnknownFunctionCompiled ==
    /\ op = "compile"
    /\ arg = CallText("f")
    /\ <<"f">> \notin DOMAIN function_extensions
    /\ result.err = "JSONPathTypeError"
    /\ compiled.held
    /\ NamesInSegments(compiled._query.segments) # {}

-----------------------------------------------------------------------------
(* SpecCompile: a host that creates an environment and compiles, or finds   *)
(* with, one query text.                                                    *)

\* The `~` forms: .~  .~a  [~]  [~'a']  [~?@.a]  ..~  ..[~]
KeysForms ==
    {<<".", "~">>, <<".", "~", "a">>, <<"[", "~", "]">>,
     <<"[", "~", "'", "a", "'", "]">>, <<"[", "~", "?", "@", ".", "a", "]">>,
     <<".", ".", "~">>, <<".", ".", "[", "~", "]">>}

\* What stands before a form (nothing, .a, [0]) and after it (nothing, .b, [*]).
Before == {<<>>, <<".", "a">>, <<"[", "0", "]">>}

After == {<<>>, <<".", "b">>, <<"[", "*", "]">>}

KeysTexts == {<<"$">> \o p \o f \o s : p \in Before, f \in KeysForms, s \in After}

\* Texts without a `~` form: $  $.a  $['~']  $[*].b  $[?@.a=='~']
PlainTexts ==
    {<<"$">>, <<"$", ".", "a">>, <<"$", "[", "'", "~", "'", "]">>,
     <<"$", "[", "*", "]", ".", "b">>,
     <<"$", "[", "?", "@", ".", "a", "=", "=", "'", "~", "'", "]">>}

ComparisonSymbols ==
    {<<"=", "=">>, <<"!", "=">>, <<"<">>, <<">">>, <<"<", "=">>, <<">", "=">>}

\* Operands a comparison may have: 1  @.a  @[0]  $.a[0]
SingularOperands ==
    {<<"1">>, <<"@", ".", "a">>, <<"@", "[", "0", "]">>,
     <<"$", ".", "a", "[", "0", "]">>}

\* Queries that are not singular: @.*  @..a  @[0,1]  @[0:1]  @[-1]  @[?@.a]
\* $.*  @.a.*
NonSingularOperands ==
    {<<"@", ".", "*">>, <<"@", ".", ".", "a">>, <<"@", "[", "0", ",", "1", "]">>,
     <<"@", "[", "0", ":", "1", "]">>, <<"@", "[", "-", "1", "]">>,
     <<"@", "[", "?", "@", ".", "a", "]">>, <<"$", ".", "*">>,
     <<"@", ".", "a", ".", "*">>}

\* $[?left o right]
ComparisonText(left, o, right) == <<"$", "[", "?">> \o left \o o \o right \o <<"]">>

ComparisonTexts ==
    {ComparisonText(left, o, right) :
        left \in SingularOperands \cup NonSingularOperands,
        o \in ComparisonSymbols,
        right \in SingularOperands \cup NonSingularOperands}

\* {"a": [1], "b": 1}
CompileDoc == JObj(<<A, B>>, <<JArr(<<JNum(1)>>), JNum(1)>>)

InitCompile ==
    /\ kwargs \in {NoKwargs, StrictKwarg(TRUE), StrictKwarg(FALSE)}
    /\ strict = StrictOf(kwargs)
    /\ function_extensions = setup_function_extensions
    /\ compiled = NoQuery
    /\ doc = CompileDoc
    /\ op = "init"
    /\ arg \in KeysTexts \cup PlainTexts \cup ComparisonTexts
    /\ result = ReturnedNone
    /\ second = ReturnedNone

\* env.compile(arg)
CompileGiven == op = "init" /\ Compile(arg)

\* env.find(arg, doc)
FindGiven == op = "init" /\ Find(arg)

NextCompile == CompileGiven \/ FindGiven

SpecCompile == InitCompile /\ [][NextCompile]_vars

\* C4: an environment created without the strict argument is strict; a
\* text with a `~` form compiles in an environment that is not strict, and
\* in a strict one compile raises the syntax error "keys syntax (`~`) is
\* disabled" and gives the host no query.
KeysNeedNotStrict ==
    /\ kwargs = NoKwargs => strict
    /\ (op = "compile" /\ arg \in KeysTexts) =>
           IF strict
           THEN /\ result.err = "JSONPathSyntaxError"
                /\ result.msg = KeysDisabled
                /\ compiled = NoQuery
           ELSE result.err = "" /\ compiled.held

\* compile of a text with a `~` form has raised in an environment created
\* with the defaults.
KeysRejectedByDefault ==
    /\ kwargs = NoKwargs
    /\ op = "compile"
    /\ arg \in KeysTexts
    /\ result.msg = KeysDisabled

\* C6: compile, and find before it evaluates anything, raises a type error
\* for a query that compares (==, !=, <, >, <=, >=) a relative or root
\* query that is not singular: one with a descendant segment, a segment of
\* several selectors, or a selector other than Name or a non-negative Index.
NonSingularRejected ==
    (/\ op \in {"compile", "find"}
     /\ \E left \in SingularOperands \cup NonSingularOperands,
           right \in SingularOperands \cup NonSingularOperands,
           o \in ComparisonSymbols :
            /\ arg = ComparisonText(left, o, right)
            /\ (left \in NonSingularOperands \/ right \in NonSingularOperands))
        => /\ result.err = "JSONPathTypeError"
           /\ result.nodes = <<>>
           /\ compiled = NoQuery

\* find of $[?@.a==@.*] has raised the type error.
NonSingularFound ==
    /\ op = "find"
    /\ arg = ComparisonText(<<"@", ".", "a">>, <<"=", "=">>, <<"@", ".", "*">>)
    /\ result.err = "JSONPathTypeError"

-----------------------------------------------------------------------------
(* A host that applies one query, given as its AST, to one document with    *)
(* the evaluator of query.py.  The specifications below differ in the       *)
(* documents and the queries they draw.                                     *)

InitFind(docs, queries) ==
    /\ kwargs = StrictKwarg(FALSE)
    /\ strict = StrictOf(kwargs)
    /\ function_extensions = setup_function_extensions
    /\ compiled = NoQuery
    /\ doc \in docs
    /\ op = "init"
    /\ arg \in queries
    /\ result = ReturnedNone
    /\ second = ReturnedNone

\* JSONPathQuery(arg, env).find(doc)
Evaluate ==
    /\ op = "init"
    /\ op' = "find"
    /\ result' = Returned(find(arg, function_extensions, doc))
    /\ UNCHANGED <<kwargs, function_extensions, strict, compiled, doc, arg, second>>

\* The node of the root, and the nodes of its children: what $[*] selects.
RootNode(value) == JSONPathNode(value, <<>>)

ChildNodes(value) ==
    IF IsContainer(value)
    THEN [i \in 1..Len(value.items) |-> ChildNode(RootNode(value), i)]
    ELSE <<>>

-----------------------------------------------------------------------------
(* SpecSelect: the selectors of a child segment over the children of an     *)
(* array.                                                                   *)

\* The longest array, and the largest index and slice bound, of SpecSelect.
MaxLen == 3

MaxIndex == 3

MaxBound == 2

\* [1, ..., n]
ArrayOfLen(n) == JArr([i \in 1..n |-> JNum(i)])

\* The elements of the documents: two primitives, the arrays up to MaxLen
\* and four objects.
Kids ==
    {JNum(1), JStr(A)} \cup {ArrayOfLen(n) : n \in 0..MaxLen}
        \cup {JObj(<<>>, <<>>), JObj(<<A>>, <<JNum(1)>>), JObj(<<B>>, <<JNum(2)>>),
              JObj(<<B, A>>, <<JNum(1), JNum(2)>>)}

SelectDocs == {JArr(<<x, y>>) : x, y \in Kids}

Bounds == {None} \cup {Some(i) : i \in (-MaxBound)..MaxBound}

Steps == {None, Some(-1), Some(0), Some(1), Some(2)}

Names == {SelName(A), SelName(B)}

Indices == {SelIndex(i) : i \in (-MaxIndex)..MaxIndex}

Slices == {SelSlice(start, stop, step) : start \in Bounds, stop \in Bounds, step \in Steps}

\* A few selectors to pair: a, [0], [MaxIndex], [1:0], [::0], [::-1], *
Paired ==
    {SelName(A), SelIndex(0), SelIndex(MaxIndex), SelSlice(Some(1), Some(0), None),
     SelSlice(None, None, Some(0)), SelSlice(None, None, Some(-1)), SelWild}

\* $[*][s] and $[*][s, t]
SelectQueries ==
    {Query(<<Segment("Child", <<SelWild>>), Segment("Child", <<s>>)>>) :
        s \in Names \cup Indices \cup Slices \cup {SelWild}}
    \cup {Query(<<Segment("Child", <<SelWild>>), Segment("Child", <<s, t>>)>>) :
            s \in Paired, t \in Paired}

InitSelect == InitFind(SelectDocs, SelectQueries)

SpecSelect == InitSelect /\ [][Evaluate]_vars

\* The bounds of a slice are crossed: both are given, on the same side of
\* zero, and the step does not lead from start to stop.
Crossed(selector) ==
    /\ selector.start.some /\ selector.stop.some
    /\ (selector.start.v >= 0) = (selector.stop.v >= 0)
    /\ IF selector.step.some /\ selector.step.v < 0
       THEN selector.start.v <= selector.stop.v
       ELSE selector.start.v >= selector.stop.v

\* The selector naturally matches nothing of the value.
Misses(value, selector) ==
    \/ ~IsContainer(value)
    \/ /\ selector.kind = "Name"
       /\ (value.t # "obj" \/ \A i \in 1..Len(value.names) : value.names[i] # selector.name)
    \/ /\ selector.kind = "Index"
       /\ \/ value.t # "arr"
          \/ selector.index >= Len(value.items)
          \/ selector.index < -Len(value.items)
    \/ /\ selector.kind = "Slice"
       /\ \/ value.t # "arr"
          \/ (selector.step.some /\ selector.step.v = 0)
          \/ Crossed(selector)

\* The nodes of the selectors from the j-th on, of the nodes from the i-th
\* on, the selectors that miss left out.
RECURSIVE HitsOfSelectors(_, _, _, _)
HitsOfSelectors(root, node, selectors, j) ==
    IF j > Len(selectors) THEN <<>>
    ELSE (IF Misses(node.value, selectors[j]) THEN <<>>
          ELSE resolve_selector(function_extensions, root, node, selectors[j]).nodes)
         \o HitsOfSelectors(root, node, selectors, j + 1)

RECURSIVE HitsOfNodes(_, _, _, _)
HitsOfNodes(root, nodes, selectors, i) ==
    IF i > Len(nodes) THEN <<>>
    ELSE HitsOfSelectors(root, nodes[i], selectors, 1)
         \o HitsOfNodes(root, nodes, selectors, i + 1)

\* C7: a Name on a missing key or on a non-object, an Index out of range
\* or on a non-array, a Slice with crossed bounds or step 0, and any
\* selector on a primitive raise nothing and yield no node; the nodes of
\* the other selectors and of the other input nodes are all there, in order.
MissesYieldNothing ==
    op = "find" =>
        /\ result.err = ""
        /\ result.nodes = HitsOfNodes(doc, ChildNodes(doc), arg.segments[2].selectors, 1)

\* A segment of two selectors, the first of which misses a container among
\* the input nodes, has yielded two nodes or more.
MissAmongHits ==
    /\ op = "find"
    /\ Len(arg.segments[2].selectors) = 2
    /\ Len(result.nodes) >= 2
    /\ \E i \in 1..Len(doc.items) :
           /\ IsContainer(doc.items[i])
           /\ Misses(doc.items[i], arg.segments[2].selectors[1])
           /\ ~Misses(doc.items[i], arg.segments[2].selectors[2])

-----------------------------------------------------------------------------
(* SpecPaths: a host that applies a query and then applies the normalized   *)
(* path of one of the nodes to the same document.                           *)

\* [1, 2, 3], [[1, 2], {"a": 1}], {"a": [1, 2, 3], "b": 2}, {"b": {"a": [1]}}
\* and the arrays up to MaxLen.
PathDocs ==
    {ArrayOfLen(n) : n \in 0..MaxLen}
        \cup {JArr(<<ArrayOfLen(2), JObj(<<A>>, <<JNum(1)>>)>>),
              JObj(<<A, B>>, <<ArrayOfLen(3), JNum(2)>>),
              JObj(<<B>>, <<JObj(<<A>>, <<ArrayOfLen(1)>>)>>)}

\* ?@.a, ?@[0] and ?@==1
PathFilters ==
    {SelFilter(ExprRelativeQuery(<<Segment("Child", <<SelName(A)>>)>>)),
     SelFilter(ExprRelativeQuery(<<Segment("Child", <<SelIndex(0)>>)>>)),
     SelFilter(ExprComparison(ExprRelativeQuery(<<>>), "Eq", ExprInt(1)))}

PathSelectors == Names \cup Indices \cup Slices \cup {SelWild} \cup PathFilters

\* $[s], $..[s], $.a[s] and $[*][s]
PathQueries ==
    {Query(<<Segment(kind, <<s>>)>>) : kind \in {"Child", "Recursive"}, s \in PathSelectors}
    \cup {Query(<<Segment("Child", <<first>>), Segment("Child", <<s>>)>>) :
            first \in {SelName(A), SelWild}, s \in PathSelectors}

InitPaths == InitFind(PathDocs, PathQueries)

\* find(n.path(), doc) for the i-th node n of the result; the host keeps n
\* as the one node of result.  The path is compiled by the environment and
\* evaluated as the query was.
FoundByPath(c) ==
    IF c.err # "" THEN [err |-> c.err, msg |-> c.msg, nodes |-> <<>>]
    ELSE Returned(find(c.query._query, function_extensions, doc))

Refind(i) ==
    /\ op = "find"
    /\ result.err = ""
    /\ i \in 1..Len(result.nodes)
    /\ op' = "refind"
    /\ result' = [result EXCEPT !.nodes = <<result.nodes[i]>>]
    /\ second' = FoundByPath(compile(_Env(function_extensions, strict),
                                     path(result.nodes[i])))
    /\ UNCHANGED <<kwargs, function_extensions, strict, compiled, doc, arg>>

NextPaths ==
    \/ Evaluate
    \/ \E i \in 1..(MaxLen + 4) : Refind(i)

SpecPaths == InitPaths /\ [][NextPaths]_vars

\* C1: the normalized path of every node of find(q, d), applied to d,
\* yields exactly one node, and its value equals the node's value.
PathsIdempotent ==
    op = "refind" =>
        /\ second.err = ""
        /\ Len(second.nodes) = 1
        /\ PyEq(second.nodes[1].value, result.nodes[1].value)

-----------------------------------------------------------------------------
(* SpecDescend: descendant segments over documents nested one container in  *)
(* the other.                                                               *)

\* The deepest document, and the maximum depth the environment of this
\* specification is configured with (env.max_recursion_depth, which
\* query.py:123 names).
MaxDepth == 4

MaxRecursionDepth == 2

\* The documents of d containers, each the only element or member of the
\* one around it, with 1 innermost.
RECURSIVE Nested(_)
Nested(d) ==
    IF d = 0 THEN {JNum(1)}
    ELSE {JArr(<<c>>) : c \in Nested(d - 1)} \cup {JObj(<<A>>, <<c>>) : c \in Nested(d - 1)}

DescendDocs == UNION {Nested(d) : d \in 1..MaxDepth}

\* $..*, $..a, $..[0] and $..[?@]
DescendQueries ==
    {Query(<<Segment("Recursive", <<s>>)>>) :
        s \in {SelWild, SelName(A), SelIndex(0), SelFilter(ExprRelativeQuery(<<>>))}}

InitDescend == InitFind(DescendDocs, DescendQueries)

SpecDescend == InitDescend /\ [][Evaluate]_vars

\* The number of values below a value.
RECURSIVE Descendants(_)
RECURSIVE DescendantsFrom(_, _)
DescendantsFrom(items, i) ==
    IF i > Len(items) THEN 0
    ELSE 1 + Descendants(items[i]) + DescendantsFrom(items, i + 1)

Descendants(v) == IF IsContainer(v) THEN DescendantsFrom(v.items, 1) ELSE 0

\* C8: a descendant segment over a document nested deeper than the
\* configured maximum raises a recursion error and returns no node list; a
\* document within the limit is traversed completely, so $..* yields every
\* value below the root.
DescentLimited ==
    op = "find" =>
        IF Depth(doc) > MaxRecursionDepth
        THEN result.err = "RecursionError"
        ELSE /\ result.err = ""
             /\ arg.segments[1].selectors[1] = SelWild
                    => Len(result.nodes) = Descendants(doc)

-----------------------------------------------------------------------------
(* SpecFilter: a filter selector over the children of the root, the filter  *)
(* comparing the current node or the current key with a literal.            *)

\* The arrays up to MaxLen, [2, 1, 0], {"a": 1, "b": 2}, {"b": 0, "a": 2},
\* {"a": "a"} and {}.
FilterDocs ==
    {ArrayOfLen(n) : n \in 0..MaxLen}
        \cup {JArr(<<JNum(2), JNum(1), JNum(0)>>),
              JObj(<<A, B>>, <<JNum(1), JNum(2)>>), JObj(<<B, A>>, <<JNum(0), JNum(2)>>),
              JObj(<<A>>, <<JStr(A)>>), JObj(<<>>, <<>>)}

Operators == {"Eq", "Ne", "Lt", "Gt", "Le", "Ge"}

FilterLiterals == {ExprInt(0), ExprInt(1), ExprInt(2), ExprString(A), ExprString(B)}

\* @ and #
Current == {ExprRelativeQuery(<<>>), ExprCurrentKey}

\* $[?@ op literal], $[?# op literal] and the literal first
FilterQueries ==
    {Query(<<Segment("Child", <<SelFilter(ExprComparison(c, operator, literal))>>)>>) :
        c \in Current, operator \in Operators, literal \in FilterLiterals}
    \cup {Query(<<Segment("Child", <<SelFilter(ExprComparison(literal, operator, c))>>)>>) :
            c \in Current, operator \in Operators, literal \in FilterLiterals}

InitFilter == InitFind(FilterDocs, FilterQueries)

SpecFilter == InitFilter /\ [][Evaluate]_vars

\* The key of the i-th child: the member name as a string, the element
\* index as a number.
KeyOf(value, i) == IF value.t = "obj" THEN ExprString(value.names[i]) ELSE ExprInt(i - 1)

\* The expression with # bound to the key.
RECURSIVE BoundTo(_, _)
BoundTo(expression, key) ==
    IF expression.kind = "CurrentKey" THEN key
    ELSE [expression EXCEPT
             !.args = [i \in DOMAIN expression.args |-> BoundTo(expression.args[i], key)]]

\* The children from the i-th on for which the expression is truthy, @ the
\* child's value and # its key.
RECURSIVE Kept(_, _, _)
Kept(value, expression, i) ==
    IF i > Len(value.items) THEN <<>>
    ELSE (IF evaluate_filter(function_extensions, BoundTo(expression, KeyOf(value, i)),
                             value, value.items[i]).truthy
          THEN <<ChildNode(RootNode(value), i)>>
          ELSE <<>>)
         \o Kept(value, expression, i + 1)

\* C10: a filter selector evaluates its expression once per child of the
\* container, with @ bound to the child's value and # to the child's key
\* (the member name as a string, the element index as a number), and emits
\* the children for which the result is truthy, in document order.
FilterBindsCurrent ==
    op = "find" =>
        /\ result.err = ""
        /\ result.nodes = Kept(doc, arg.segments[1].selectors[1].expression[1], 1)

-----------------------------------------------------------------------------
(* SpecKeys: a non-strict environment finds with a query that ends with a   *)
(* keys selector.                                                           *)

\* Primitives, arrays and objects, and each as the one member a of an
\* object and as the one element of an array.
KeysInner ==
    {JNum(1), JStr(A), ArrayOfLen(0), ArrayOfLen(2), JObj(<<>>, <<>>),
     JObj(<<A>>, <<JNum(1)>>), JObj(<<B, A>>, <<JNum(1), JNum(2)>>),
     JObj(<<A, B>>, <<ArrayOfLen(1), JStr(B)>>)}

KeysDocs ==
    KeysInner \cup {JObj(<<A>>, <<x>>) : x \in KeysInner} \cup {JArr(<<x>>) : x \in KeysInner}

\* Where the selector is applied: the root, $.a or $[0].
KeysPrefixes == {<<>>, <<".", "a">>, <<"[", "0", "]">>}

\* ~ and [~]; ~name and [~'name']
AllKeysForms == {<<".", "~">>, <<"[", "~", "]">>}

KeyNameForms(name) == {<<".", "~">> \o name, <<"[", "~", "'">> \o name \o <<"'", "]">>}

KeysQueryTexts ==
    {<<"$">> \o p \o f :
        p \in KeysPrefixes, f \in AllKeysForms \cup KeyNameForms(A) \cup KeyNameForms(B)}

InitKeys == InitFind(KeysDocs, KeysQueryTexts)

SpecKeys == InitKeys /\ [][FindGiven]_vars

\* The node the prefix selects, if any.
KeysBase(value, prefix) ==
    IF prefix = <<>> THEN <<RootNode(value)>>
    ELSE IF prefix = <<".", "a">>
    THEN (IF value.t = "obj" /\ MemberPos(value.names, A, 1) # 0
          THEN <<[value |-> value.items[MemberPos(value.names, A, 1)],
                  location |-> <<[k |-> "name", name |-> A, index |-> 0]>>]>>
          ELSE <<>>)
    ELSE (IF value.t = "arr" /\ Len(value.items) >= 1
          THEN <<[value |-> value.items[1],
                  location |-> <<[k |-> "index", name |-> <<>>, index |-> 0]>>]>>
          ELSE <<>>)

\* One node per member of the object the prefix selects, in document
\* order: the name as a string, at the location of the key marker.
NamesUnder(base) ==
    IF base = <<>> \/ base[1].value.t # "obj" THEN <<>>
    ELSE [i \in 1..Len(base[1].value.names) |->
             [value |-> JStr(base[1].value.names[i]),
              location |-> base[1].location
                  \o <<[k |-> "key", name |-> base[1].value.names[i], index |-> 0]>>]]

EndsWith(s, suffix) ==
    /\ Len(s) >= Len(suffix)
    /\ SubSeq(s, Len(s) - Len(suffix) + 1, Len(s)) = suffix

-----------------------------------------------------------------------------
(* SpecRender: a host that asks two nodes for their normalized paths        *)
(* (JSONPathNode.path of node.py).                                          *)

\* Member names: a, b, ', \ and a']['b
RenderNames == {A, B, <<"'">>, <<"\\">>, <<"a", "'", "]", "[", "'", "b">>}

\* The parts of a location node.py knows: a str or an int.
RenderParts == {LName(name) : name \in RenderNames} \cup {LIndex(i) : i \in 0..MaxIndex}

RenderLocations ==
    {<<>>} \cup {<<p>> : p \in RenderParts} \cup {<<p, q>> : p, q \in RenderParts}

InitRender ==
    /\ kwargs = StrictKwarg(FALSE)
    /\ strict = StrictOf(kwargs)
    /\ function_extensions = setup_function_extensions
    /\ compiled = NoQuery
    /\ doc = JNull
    /\ op = "init"
    /\ arg \in RenderLocations \X RenderLocations
    /\ result = <<>>
    /\ second = <<>>

\* JSONPathNode(value=doc, location=arg[i]).path() for both locations
Paths ==
    /\ op = "init"
    /\ op' = "paths"
    /\ result' = path(JSONPathNode(doc, arg[1]))
    /\ second' = path(JSONPathNode(doc, arg[2]))
    /\ UNCHANGED <<kwargs, function_extensions, strict, compiled, doc, arg>>

SpecRender == InitRender /\ [][Paths]_vars

\* C11: the path of a node is $ followed by one bracketed segment per part
\* of its location, in order: a name as ['k'] with every ' and \ of k
\* escaped, an index as [i]; so two distinct locations never have the same
\* path.
PathsEscapedAndDistinct ==
    op = "paths" =>
        /\ result = NativePath(JSONPathNode(doc, arg[1]))
        /\ second = NativePath(JSONPathNode(doc, arg[2]))
        /\ arg[1] # arg[2] => result # second

-----------------------------------------------------------------------------
(* SpecVisit: a descendant segment of one or two selectors over the root    *)
(* or over the children of the root, the documents up to three containers   *)
(* deep.                                                                    *)

\* 1, [], [1], [1, 2], {"a": 1} and {"b": 1, "a": 2}
VisitInner ==
    {JNum(1), ArrayOfLen(0), ArrayOfLen(1), ArrayOfLen(2), JObj(<<A>>, <<JNum(1)>>),
     JObj(<<B, A>>, <<JNum(1), JNum(2)>>)}

\* [x, y], {"b": x, "a": y}, [[x], y] and {"a": {"b": x}, "b": y}
VisitDocs ==
    {JArr(<<x, y>>) : x, y \in VisitInner}
        \cup {JObj(<<B, A>>, <<x, y>>) : x, y \in VisitInner}
        \cup {JArr(<<JArr(<<x>>), y>>) : x, y \in VisitInner}
        \cup {JObj(<<A, B>>, <<JObj(<<B>>, <<x>>), y>>) : x, y \in VisitInner}

VisitSelectors ==
    {SelWild, SelName(A), SelName(B), SelIndex(0), SelIndex(-1),
     SelFilter(ExprRelativeQuery(<<>>))}

\* $..[s], $..[s, t], $[*]..[s, t] and $[*, *]..[s]
VisitQueries ==
    {Query(<<Segment("Recursive", <<s>>)>>) : s \in VisitSelectors}
        \cup {Query(<<Segment("Recursive", <<s, t>>)>>) : s, t \in VisitSelectors}
        \cup {Query(<<Segment("Child", <<SelWild>>), Segment("Recursive", <<s, t>>)>>) :
                s, t \in {SelWild, SelName(A), SelIndex(0)}}
        \cup {Query(<<Segment("Child", <<SelWild, SelWild>>), Segment("Recursive", <<s>>)>>) :
                s \in {SelWild, SelName(A), SelIndex(0)}}

InitVisit == InitFind(VisitDocs, VisitQueries)

SpecVisit == InitVisit /\ [][Evaluate]_vars

\* Where the containers of a value are: the positions to follow from the
\* value down to each, the value itself (if a container) at <<>>.
RECURSIVE ContainerPaths(_)
ContainerPaths(v) ==
    {<<>>} \cup UNION {{<<i>> \o p : p \in ContainerPaths(v.items[i])} :
                        i \in {j \in 1..Len(v.items) : IsContainer(v.items[j])}}

\* p comes before q in a pre-order visit: an ancestor before its
\* descendants, and of two siblings' subtrees the one of the earlier member
\* or the smaller index first.
RECURSIVE VisitedBefore(_, _)
VisitedBefore(p, q) ==
    IF p = <<>> THEN q # <<>>
    ELSE IF q = <<>> THEN FALSE
    ELSE IF p[1] # q[1] THEN p[1] < q[1]
    ELSE VisitedBefore(Tail(p), Tail(q))

RECURSIVE InVisitOrder(_)
InVisitOrder(S) ==
    IF S = {} THEN <<>>
    ELSE LET first == CHOOSE p \in S : \A q \in S \ {p} : VisitedBefore(p, q)
         IN <<first>> \o InVisitOrder(S \ {first})

\* The node reached from a node by following the positions.
RECURSIVE NodeAt(_, _)
NodeAt(node, p) == IF p = <<>> THEN node ELSE NodeAt(ChildNode(node, p[1]), Tail(p))

NodesAt(node, ps) == [k \in 1..Len(ps) |-> NodeAt(node, ps[k])]

\* The containers at and below the nodes that are containers, each node's
\* in pre-order, node after node.
RECURSIVE PreOrder(_)
PreOrder(nodes) ==
    IF nodes = <<>> THEN <<>>
    ELSE (IF IsContainer(Head(nodes).value)
          THEN NodesAt(Head(nodes), InVisitOrder(ContainerPaths(Head(nodes).value)))
          ELSE <<>>)
         \o PreOrder(Tail(nodes))

\* What the selectors from the j-th on yield for the i-th node, then what
\* all of them yield for each node after it.
RECURSIVE Applied(_, _, _, _, _)
Applied(root, nodes, selectors, i, j) ==
    IF i > Len(nodes) THEN <<>>
    ELSE IF j > Len(selectors) THEN Applied(root, nodes, selectors, i + 1, 1)
    ELSE resolve_selector(function_extensions, root, nodes[i], selectors[j]).nodes
         \o Applied(root, nodes, selectors, i, j + 1)

\* The input of the descendant segment: the root, or the children of the
\* root once per wildcard of the segment before it.
VisitInputs(value, segments) ==
    IF Len(segments) = 1 THEN <<RootNode(value)>>
    ELSE IF Len(segments[1].selectors) = 1 THEN ChildNodes(value)
    ELSE ChildNodes(value) \o ChildNodes(value)

\* C12: a descendant segment yields, for each input node in order, what its
\* selectors yield in declaration order at each container of a depth-first
\* pre-order visit of the node (members in document order, elements by
\* ascending index), all of one visited node before the next; nothing is
\* reordered and nothing is left out as a duplicate.
DescendantIsPreOrder ==
    op = "find" =>
        /\ result.err = ""
        /\ result.nodes =
               Applied(doc, PreOrder(VisitInputs(doc, arg.segments)),
                       arg.segments[Len(arg.segments)].selectors, 1, 1)

\* Two selectors over the children of a document three containers deep
\* have yielded the same node twice, and a node below the first child
\* before a node of the second child.
VisitedTwice ==
    /\ op = "find"
    /\ Len(arg.segments) = 2
    /\ Len(arg.segments[2].selectors) = 2
    /\ Depth(doc) = 3
    /\ \E i, j \in 1..Len(result.nodes) :
           i < j /\ result.nodes[i] = result.nodes[j]
    /\ \E i, j \in 1..Len(result.nodes) :
           /\ i < j
           /\ Len(result.nodes[i].location) = 3
           /\ Len(result.nodes[j].location) = 2
           /\ result.nodes[i].location[1] # result.nodes[j].location[1]

-----------------------------------------------------------------------------
(* SpecIndex: an index selector over an array, over the children of an      *)
(* array and over all the arrays of a document.                             *)

\* The arrays up to MaxLen and the arrays of two of them.
IndexDocs ==
    {ArrayOfLen(n) : n \in 0..MaxLen}
        \cup {JArr(<<ArrayOfLen(m), ArrayOfLen(n)>>) : m, n \in 0..MaxLen}

\* $[i], $[*][i] and $..[i]
IndexQueries ==
    {Query(<<Segment(kind, <<SelIndex(i)>>)>>) :
        kind \in {"Child", "Recursive"}, i \in (-MaxIndex - 1)..MaxIndex}
    \cup {Query(<<Segment("Child", <<SelWild>>), Segment("Child", <<SelIndex(i)>>)>>) :
            i \in (-MaxIndex - 1)..MaxIndex}

InitIndex == InitFind(IndexDocs, IndexQueries)

SpecIndex == InitIndex /\ [][Evaluate]_vars

\* The nodes the index selector is applied to.
IndexInputs(value, segments) ==
    IF Len(segments) = 2 THEN ChildNodes(value)
    ELSE IF segments[1].kind = "Recursive" THEN PreOrder(<<RootNode(value)>>)
    ELSE <<RootNode(value)>>

\* The element of an array of length n the index i selects, at its
\* position counted from the start of the array; none out of range.
RECURSIVE ElementsAt(_, _)
ElementsAt(nodes, i) ==
    IF nodes = <<>> THEN <<>>
    ELSE LET n == Len(Head(nodes).value.items)
             position == IF i >= 0 THEN i ELSE n + i
         IN (IF Head(nodes).value.t = "arr" /\ -n <= i /\ i < n
             THEN <<JSONPathNode(Head(nodes).value.items[position + 1],
                                 Head(nodes).location \o <<LIndex(position)>>)>>
             ELSE <<>>)
            \o ElementsAt(Tail(nodes), i)

\* C13: an index selector i on an array of length n yields one node iff
\* -n <= i < n: the element at position i, or at n + i when i < 0, with
\* that position appended to the location; so no location of a result has
\* a negative index.
IndexNormalized ==
    op = "find" =>
        /\ result.err = ""
        /\ result.nodes =
               ElementsAt(IndexInputs(doc, arg.segments),
                          arg.segments[Len(arg.segments)].selectors[1].index)
        /\ \A k \in 1..Len(result.nodes) :
               \A p \in 1..Len(result.nodes[k].location) :
                   result.nodes[k].location[p].k = "index"
                       => result.nodes[k].location[p].index >= 0

-----------------------------------------------------------------------------
(* SpecSlice: a slice selector over an array and over the children of an    *)
(* array.                                                                   *)

\* $[start:stop:step] and $[*][start:stop:step]
SliceQueries ==
    {Query(<<Segment("Child", <<s>>)>>) : s \in Slices}
        \cup {Query(<<Segment("Child", <<SelWild>>), Segment("Child", <<s>>)>>) : s \in Slices}

InitSlice == InitFind(IndexDocs, SliceQueries)

SpecSlice == InitSlice /\ [][Evaluate]_vars

Min(x, y) == IF x < y THEN x ELSE y

Max(x, y) == IF x > y THEN x ELSE y

\* RFC 9535, 2.3.4.2.2: Normalize and Bounds, and the positions the loop
\* selects, in the order it selects them.
RfcNormalize(i, len) == IF i >= 0 THEN i ELSE len + i

RfcLower(start, stop, step, len) ==
    IF step >= 0 THEN Min(Max(RfcNormalize(start, len), 0), len)
    ELSE Min(Max(RfcNormalize(stop, len), -1), len - 1)

RfcUpper(start, stop, step, len) ==
    IF step >= 0 THEN Min(Max(RfcNormalize(stop, len), 0), len)
    ELSE Min(Max(RfcNormalize(start, len), -1), len - 1)

RECURSIVE RfcLoop(_, _, _, _)
RfcLoop(i, lower, upper, step) ==
    IF step > 0
    THEN (IF i < upper THEN <<i>> \o RfcLoop(i + step, lower, upper, step) ELSE <<>>)
    ELSE (IF lower < i THEN <<i>> \o RfcLoop(i + step, lower, upper, step) ELSE <<>>)

\* The defaults of an omitted start and stop depend on the sign of the step.
RfcSelected(start, stop, step, len) ==
    IF step = 0 THEN <<>>
    ELSE LET s == IF start.some THEN start.v ELSE IF step >= 0 THEN 0 ELSE len - 1
             e == IF stop.some THEN stop.v ELSE IF step >= 0 THEN len ELSE -len - 1
             lower == RfcLower(s, e, step, len)
             upper == RfcUpper(s, e, step, len)
         IN RfcLoop(IF step > 0 THEN lower ELSE upper, lower, upper, step)

\* The elements of the arrays among the nodes at the positions the slice
\* selects, each at its own position.
RECURSIVE SlicedAt(_, _)
SlicedAt(nodes, selector) ==
    IF nodes = <<>> THEN <<>>
    ELSE LET node == Head(nodes)
             js == RfcSelected(selector.start, selector.stop,
                               IF selector.step.some THEN selector.step.v ELSE 1,
                               Len(node.value.items))
         IN (IF node.value.t = "arr"
             THEN [k \in 1..Len(js) |->
                      JSONPathNode(node.value.items[js[k] + 1],
                                   node.location \o <<LIndex(js[k])>>)]
             ELSE <<>>)
            \o SlicedAt(Tail(nodes), selector)

\* C14: a slice selector on an array yields the elements the slice
\* algorithm of RFC 9535 selects, in its order, whatever of start, stop and
\* step is given, negative or beyond the array; the index appended to the
\* location of each is the position j of the element, 0 <= j < len.
SliceByPosition ==
    op = "find" =>
        /\ result.err = ""
        /\ result.nodes =
               SlicedAt(IF Len(arg.segments) = 2 THEN ChildNodes(doc) ELSE <<RootNode(doc)>>,
                        arg.segments[Len(arg.segments)].selectors[1])

-----------------------------------------------------------------------------
(* SpecOrder: a filter of one comparison with <, >, <= or >= over the one   *)
(* element of an array.                                                     *)

\* null, false, true, 0, 1, 2, "", "a", "b", "ab", [], [1], [1, 2], {} and
\* {"a": 1}
ComparedValues ==
    {JNull, JBool(FALSE), JBool(TRUE), JNum(0), JNum(1), JNum(2),
     JStr(<<>>), JStr(A), JStr(B), JStr(<<"a", "b">>),
     ArrayOfLen(0), ArrayOfLen(1), ArrayOfLen(2), JObj(<<>>, <<>>), JObj(<<A>>, <<JNum(1)>>)}

ComparedDocs == {JArr(<<x>>) : x \in ComparedValues}

\* @, @.a, @.* and the literals true, false, null, 0, 1 and "a"
Operands ==
    {ExprRelativeQuery(<<>>),
     ExprRelativeQuery(<<Segment("Child", <<SelName(A)>>)>>),
     ExprRelativeQuery(<<Segment("Child", <<SelWild>>)>>),
     ExprTrue, ExprFalse, ExprNull, ExprInt(0), ExprInt(1), ExprString(A)}

\* $[?left operator right]
Comparisons(operators) ==
    {Query(<<Segment("Child", <<SelFilter(ExprComparison(left, operator, right))>>)>>) :
        left \in Operands, operator \in operators, right \in Operands}

InitOrder == InitFind(ComparedDocs, Comparisons({"Lt", "Gt", "Le", "Ge"}))

SpecOrder == InitOrder /\ [][Evaluate]_vars

\* The comparison of the filter, and what an operand of it stands for when
\* the current node is the element: a value, Nothing or a node list.
ComparisonOfFilter == arg.segments[1].selectors[1].expression[1]

Compared(i) ==
    Operand(evaluate_filter_expression(function_extensions, ComparisonOfFilter.args[i],
                                       doc, doc.items[1]))

\* left < right as claimed: of two numbers or of two strings only.
OrderedBefore(left, right) ==
    /\ left.kind = "value" /\ right.kind = "value"
    /\ \/ left.val.t = "num" /\ right.val.t = "num" /\ left.val.n < right.val.n
       \/ left.val.t = "str" /\ right.val.t = "str" /\ StrLt(left.val.s, right.val.s)

\* C15: < and > hold only between two numbers, by value, or two strings,
\* by code point; for any other pair of operands (a boolean, null, Nothing,
\* an array, an object or a node list among them) both are false, so <=
\* and >= hold exactly when == holds.
OrderOnlyOfNumbersAndStrings ==
    op = "find" =>
        /\ result.err = ""
        /\ (result.nodes # <<>>) =
               CASE ComparisonOfFilter.operator = "Lt" -> OrderedBefore(Compared(1), Compared(2))
                 [] ComparisonOfFilter.operator = "Gt" -> OrderedBefore(Compared(2), Compared(1))
                 [] ComparisonOfFilter.operator = "Le" ->
                        OrderedBefore(Compared(1), Compared(2)) \/ _eq(Compared(1), Compared(2))
                 [] OTHER ->
                        OrderedBefore(Compared(2), Compared(1)) \/ _eq(Compared(1), Compared(2))

-----------------------------------------------------------------------------
(* SpecEqual: a filter of one comparison with == or != over the one         *)
(* element of an array.                                                     *)

\* true, 1, [true], [1], {"a": false}, {"a": 0}, null and "a"
EqualMembers ==
    {JBool(TRUE), JNum(1), JArr(<<JBool(TRUE)>>), JArr(<<JNum(1)>>),
     JObj(<<A>>, <<JBool(FALSE)>>), JObj(<<A>>, <<JNum(0)>>), JNull, JStr(A)}

\* [x] and [{"a": u, "b": v}]
EqualDocs ==
    ComparedDocs \cup {JArr(<<JObj(<<A, B>>, <<u, v>>)>>) : u, v \in EqualMembers}

\* The operands of SpecOrder and @.b
EqualOperands == Operands \cup {ExprRelativeQuery(<<Segment("Child", <<SelName(B)>>)>>)}

EqualQueries ==
    {Query(<<Segment("Child", <<SelFilter(ExprComparison(left, operator, right))>>)>>) :
        left \in EqualOperands, operator \in {"Eq", "Ne"}, right \in EqualOperands}

InitEqual == InitFind(EqualDocs, EqualQueries)

SpecEqual == InitEqual /\ [][Evaluate]_vars

\* Nothing, or a node list without a node.
IsNothing(obj) == obj.kind = "nothing" \/ (obj.kind = "nodes" /\ obj.nodes = <<>>)

\* A node list of two nodes or more.
SeveralNodes(obj) == obj.kind = "nodes" /\ Len(obj.nodes) > 1

\* Structural equality of two JSON values: a boolean equals a boolean of
\* its value only, a number a number of its value only, at any depth.
RECURSIVE DeepEq(_, _)
DeepEq(x, y) ==
    IF x.t # y.t THEN FALSE
    ELSE CASE x.t = "null" -> TRUE
           [] x.t = "bool" -> x.b = y.b
           [] x.t = "num" -> x.n = y.n
           [] x.t = "str" -> x.s = y.s
           [] x.t = "arr" ->
                  /\ Len(x.items) = Len(y.items)
                  /\ \A i \in 1..Len(x.items) : DeepEq(x.items[i], y.items[i])
           [] OTHER ->
                  /\ Len(x.names) = Len(y.names)
                  /\ \A i \in 1..Len(x.names) :
                         /\ MemberPos(y.names, x.names[i], 1) # 0
                         /\ DeepEq(x.items[i], y.items[MemberPos(y.names, x.names[i], 1)])

\* left == right as claimed, of operands that are no lists of several nodes.
EqualAsClaimed(left, right) ==
    IF IsNothing(left) \/ IsNothing(right) THEN IsNothing(left) /\ IsNothing(right)
    ELSE DeepEq(left.val, right.val)

\* C16: == holds between Nothing and Nothing, an empty node list counting
\* as Nothing and a list of one node as the node's value; a boolean equals
\* only a boolean of the same value, never 0 or 1, also inside compared
\* arrays and objects; all other values are equal when structurally equal;
\* and != is the negation of ==.
EqualityIsStructural ==
    (op = "find" /\ ~SeveralNodes(Compared(1)) /\ ~SeveralNodes(Compared(2))) =>
        /\ result.err = ""
        /\ (result.nodes # <<>>) =
               IF ComparisonOfFilter.operator = "Eq"
               THEN EqualAsClaimed(Compared(1), Compared(2))
               ELSE ~EqualAsClaimed(Compared(1), Compared(2))

-----------------------------------------------------------------------------
(* SpecTruth: a filter that is a literal, a query, a function call or a     *)
(* !, && or || of them, over the one element of an array.                   *)

LengthOfCurrent == ExprFunction(<<"length">>, <<ExprRelativeQuery(<<>>)>>)

ValueOfCurrent == ExprFunction(<<"value">>, <<ExprRelativeQuery(<<>>)>>)

\* @, @.a, @.*, true, false, null, 0, 1, "", "a", length(@) and value(@)
TruthLeaves ==
    Operands \cup {ExprString(<<>>), LengthOfCurrent, ValueOfCurrent}

\* A few of them to combine: @.a, null, 0, "", length(@) and value(@)
TruthPaired ==
    {ExprRelativeQuery(<<Segment("Child", <<SelName(A)>>)>>), ExprNull, ExprInt(0),
     ExprString(<<>>), LengthOfCurrent, ValueOfCurrent}

\* l && m, l || m
Connected(leaves) ==
    {ExprLogical(l, operator, m) : l \in leaves, operator \in {"And", "Or"}, m \in leaves}

\* e, !e, !!e, l && m, l || m, !(l && m), (!l) && m, and each of !e and
\* l && m compared with true and with false
TruthExpressions ==
    TruthLeaves
        \cup {ExprNot(e) : e \in TruthLeaves}
        \cup {ExprNot(ExprNot(e)) : e \in TruthLeaves}
        \cup Connected(TruthLeaves)
        \cup {ExprNot(e) : e \in Connected(TruthPaired)}
        \cup {ExprLogical(ExprNot(l), operator, m) :
                l \in TruthPaired, operator \in {"And", "Or"}, m \in TruthPaired}
        \cup {ExprComparison(e, "Eq", b) :
                e \in {ExprNot(l) : l \in TruthLeaves} \cup Connected(TruthPaired),
                b \in {ExprTrue, ExprFalse}}

TruthQueries == {Query(<<Segment("Child", <<SelFilter(e)>>)>>) : e \in TruthExpressions}

InitTruth == InitFind(ComparedDocs, TruthQueries)

SpecTruth == InitTruth /\ [][Evaluate]_vars

\* The truth of what a literal, a query or a call evaluates to, as claimed.
\* (The truth of an array or an object as a value is left open.)
TruthOf(obj) ==
    CASE obj.kind = "nodes" -> obj.nodes # <<>>
      [] obj.kind = "nothing" -> FALSE
      [] obj.val.t = "null" -> TRUE
      [] obj.val.t = "bool" -> obj.val.b
      [] obj.val.t = "num" -> obj.val.n # 0
      [] OTHER -> obj.val.s # <<>>

TruthConnectives == {"Not", "Logical", "Comparison"}

\* No literal, query or call of the expression is an array or an object as
\* a value.
RECURSIVE Decided(_, _)
Decided(e, current) ==
    IF e.kind \in TruthConnectives
    THEN \A i \in 1..Len(e.args) : Decided(e.args[i], current)
    ELSE LET obj == evaluate_filter_expression(function_extensions, e, doc, current)
         IN ~(obj.kind = "value" /\ IsContainer(obj.val))

\* Whether the expression holds for the current node: !, && and || are
\* booleans made of the truth of their operands, so e == true holds iff e
\* does and e == false iff it does not.
RECURSIVE Holds(_, _)
Holds(e, current) ==
    CASE e.kind = "Not" -> ~Holds(e.args[1], current)
      [] e.kind = "Logical" ->
             IF e.operator = "And"
             THEN Holds(e.args[1], current) /\ Holds(e.args[2], current)
             ELSE Holds(e.args[1], current) \/ Holds(e.args[2], current)
      [] e.kind = "Comparison" -> Holds(e.args[1], current) = e.args[2].value.b
      [] OTHER -> TruthOf(evaluate_filter_expression(function_extensions, e, doc, current))

\* C17: a filter emits a child iff its expression is true of it, where a
\* node list is true iff it is not empty, Nothing is false, null is true,
\* a boolean is its value, a number is true iff it is not zero and a
\* string iff it is not empty; !, && and || use the same truth and give a
\* boolean.
TruthinessAsClaimed ==
    (op = "find" /\ Decided(ComparisonOfFilter, doc.items[1])) =>
        /\ result.err = ""
        /\ (result.nodes # <<>>) = Holds(ComparisonOfFilter, doc.items[1])

\* !length(@) && null was true of 1, whose length is Nothing.
NullIsTrueNothingFalse ==
    /\ op = "find"
    /\ doc = JArr(<<JNum(1)>>)
    /\ ComparisonOfFilter = ExprLogical(ExprNot(LengthOfCurrent), "And", ExprNull)
    /\ result.nodes = <<JSONPathNode(JNum(1), <<LIndex(0)>>)>>

-----------------------------------------------------------------------------
(* SpecCall: a filter that compares the result of length, count or value    *)
(* of a query with a literal or with another query, over the one element    *)
(* of an array.                                                             *)

\* 1, "a", "ab", [], [1], [1, 2], {}, {"a": 1}, {"a": "ab"}, {"a": [1, 2]},
\* {"a": {}}, {"a": 1, "b": 1}, {"a": [1], "b": 1} and {"b": 2, "a": "ab"}
CallValues ==
    {JNum(1), JStr(A), JStr(<<"a", "b">>), ArrayOfLen(0), ArrayOfLen(1), ArrayOfLen(2),
     JObj(<<>>, <<>>), JObj(<<A>>, <<JNum(1)>>), JObj(<<A>>, <<JStr(<<"a", "b">>)>>),
     JObj(<<A>>, <<ArrayOfLen(2)>>), JObj(<<A>>, <<JObj(<<>>, <<>>)>>),
     JObj(<<A, B>>, <<JNum(1), JNum(1)>>), JObj(<<A, B>>, <<ArrayOfLen(1), JNum(1)>>),
     JObj(<<B, A>>, <<JNum(2), JStr(<<"a", "b">>)>>)}

CallDocs == {JArr(<<x>>) : x \in CallValues}

\* @, @.a, @.b, @[0] and @.*
CallArguments ==
    {ExprRelativeQuery(<<>>)}
        \cup {ExprRelativeQuery(<<Segment("Child", <<s>>)>>) :
                s \in {SelName(A), SelName(B), SelIndex(0), SelWild}}

CalledFunctions == {<<"length">>, <<"count">>, <<"value">>}

\* 0, 1, 2, "ab" and @.b
CallResults ==
    {ExprInt(0), ExprInt(1), ExprInt(2), ExprString(<<"a", "b">>),
     ExprRelativeQuery(<<Segment("Child", <<SelName(B)>>)>>)}

\* $[?f(q) == r] and $[?f(q) != r]
CallQueries ==
    {Query(<<Segment("Child",
               <<SelFilter(ExprComparison(ExprFunction(f, <<q>>), operator, r))>>)>>) :
        f \in CalledFunctions, q \in CallArguments, operator \in {"Eq", "Ne"}, r \in CallResults}

InitCall == InitFind(CallDocs, CallQueries)

SpecCall == InitCall /\ [][Evaluate]_vars

\* The call of the filter and the nodes its argument selects from the
\* current node.
CallOfFilter == ComparisonOfFilter.args[1]

ArgumentNodes ==
    finditer(Query(CallOfFilter.args[1].query), function_extensions, doc.items[1]).nodes

\* What the call returns when length is handed the value of the one node,
\* or Nothing for no node, and count and value are handed the node list:
\* the length of a string, an array or an object and Nothing of anything
\* else; the number of nodes; the value of the one node, else Nothing.
ReturnedByCall(name, nodes) ==
    CASE name = <<"length">> ->
             IF Len(nodes) = 1 /\ HasLen(nodes[1].value)
             THEN PyValue(JNum(PyLen(nodes[1].value)))
             ELSE NOTHING
      [] name = <<"count">> -> PyValue(JNum(Len(nodes)))
      [] OTHER -> IF Len(nodes) = 1 THEN PyValue(nodes[1].value) ELSE NOTHING

=============================================================================
